---- MODULE Spec2Model ----
(***************************************************************************)
(* AI request resilience and context budgeting of ai-scrum-master:         *)
(*   - CircuitBreaker / CircuitBreakerFactory                               *)
(*       backend/src/common/utils/circuit-breaker.ts                        *)
(*   - AIService.complete (cache, retry loop, backoff)                      *)
(*       backend/src/modules/ai/ai.service.ts                               *)
(*   - ContextBuilderService.truncateToFit / estimateTokens                 *)
(*       context-builder service (unnamed/part_012)                         *)
(* Times are milliseconds, as Date.now() gives them.                        *)
(***************************************************************************)
EXTENDS Integers, Sequences, FiniteSets, TLC

VARIABLES
  now,        \* Date.now()
  breakers,   \* CircuitBreakerFactory.breakers: name -> CircuitBreaker or NoBreaker
  inflight,   \* operations handed to CircuitBreaker.execute and not yet settled, per name
  run,        \* history: failures recorded on a breaker since its last success or reset
  srun,       \* history: successes recorded since the breaker turned HALF_OPEN, no failure between
  ev,         \* history: what the last step did
  registered, \* AIService.providers: the adapters whose isAvailable() held at startup
  defaultProvider, \* AIService.defaultProvider
  calls,      \* the AIService.complete() calls: position, arguments, locals, outcome
  cache,      \* AIService.responseCache: cache key -> entry or NoEntry
  fit,        \* a ContextBuilderService.truncateToFit call: arguments and returned list
  cost,       \* a calculateCost call: arguments and returned number
  admission   \* history: per breaker, how many operations in flight were admitted
              \* while it was CLOSED, and the state that admitted the operation
              \* that settled last (kept for operations run on a breaker directly)

breakerVars == <<now, breakers, inflight, run, srun, ev>>
ctxVars == <<fit, cost, admission>>
svcVars == <<registered, defaultProvider, calls, cache, ctxVars>>
vars == <<now, breakers, inflight, run, srun, ev, registered, defaultProvider, calls, cache, fit, cost, admission>>

(***************************************************************************)
(* Bounds of the model.                                                     *)
(***************************************************************************)
MaxThreshold == 2      \* thresholds passed to getOrCreate range over 1..MaxThreshold
MaxInflight == 2       \* operations in flight on one breaker
MaxFailureCount == 6   \* cap of failureCount (it grows on every failure while OPEN)
MaxTicks == 5          \* the breaker clock runs to MaxTicks * HalfReset

(***************************************************************************)
(* Program constants.                                                       *)
(***************************************************************************)
DefaultFailureThreshold == 5
DefaultSuccessThreshold == 2
DefaultTimeout == 30000
DefaultResetTimeout == 60000

NoBreaker == [state |-> "none"]
\* no truncateToFit call is being made
NoAdmission == [closed |-> 0, settled |-> ""]
NoCost == [model |-> "", promptTokens |-> 0, completionTokens |-> 0,
           result |-> [m |-> <<>>, e |-> 0], returned |-> FALSE]
NoFit == [messages |-> <<>>, model |-> "", reserveOutputTokens |-> 0, result |-> <<>>,
          returned |-> FALSE, thrown |-> ""]
NoOptions == [none |-> TRUE]
AIProviderEnum == {"openai", "anthropic", "gemini", "local"}
BreakerName(p) == "ai-" \o p
BreakerNames == {BreakerName(p) : p \in AIProviderEnum}
DirectNames == {"ai-openai"}

(***************************************************************************)
(* CircuitBreaker                                                           *)
(***************************************************************************)
\* CircuitBreakerFactory.getOrCreate's fullOptions: each missing option takes its default
FullOptions(name, options) ==
  [ name |-> name,
    failureThreshold |-> IF "failureThreshold" \in DOMAIN options
                         THEN options.failureThreshold ELSE DefaultFailureThreshold,
    successThreshold |-> IF "successThreshold" \in DOMAIN options
                         THEN options.successThreshold ELSE DefaultSuccessThreshold,
    timeout |-> IF "timeout" \in DOMAIN options
                THEN options.timeout ELSE DefaultTimeout,
    resetTimeout |-> IF "resetTimeout" \in DOMAIN options
                     THEN options.resetTimeout ELSE DefaultResetTimeout ]

\* new CircuitBreaker(options): the field initialisers
NewCircuitBreaker(options) ==
  [ state |-> "CLOSED", failureCount |-> 0, successCount |-> 0,
    lastFailureTime |-> 0, nextRetryTime |-> 0, options |-> options ]

\* CircuitBreaker.transitionTo at time t
transitionTo(b, newState, t) ==
  LET b1 == [b EXCEPT !.state = newState] IN
  IF newState = "OPEN"
    THEN [b1 EXCEPT !.nextRetryTime = t + b.options.resetTimeout]
  ELSE IF newState = "HALF_OPEN"
    THEN [b1 EXCEPT !.successCount = 0]
  ELSE IF newState = "CLOSED"
    THEN [b1 EXCEPT !.failureCount = 0, !.successCount = 0]
  ELSE b1

\* the guard of execute(): OPEN and the retry time not reached, so it throws
\* CircuitBreakerOpenError before calling operation()
IsRejected(b, t) == b.state = "OPEN" /\ ~(t >= b.nextRetryTime)

\* execute() up to the call of operation(), for a call that is not rejected
Admit(b, t) ==
  IF b.state = "OPEN" /\ t >= b.nextRetryTime
    THEN transitionTo(b, "HALF_OPEN", t)
    ELSE b

\* onSuccess leaving failureCount alone while the breaker is CLOSED
onSuccess_KeepsFailures(b, t) ==
  IF b.state = "HALF_OPEN"
    THEN LET b2 == [b EXCEPT !.failureCount = 0, !.successCount = b.successCount + 1] IN
         IF b2.successCount >= b2.options.successThreshold
           THEN transitionTo(b2, "CLOSED", t)
           ELSE b2
    ELSE b

\* onSuccess closing one success late (> for >=)
onSuccess_ClosesLate(b, t) ==
  LET b1 == [b EXCEPT !.failureCount = 0] IN
  IF b1.state = "HALF_OPEN"
    THEN LET b2 == [b1 EXCEPT !.successCount = b1.successCount + 1] IN
         IF b2.successCount > b2.options.successThreshold
           THEN transitionTo(b2, "CLOSED", t)
           ELSE b2
    ELSE b1

\* CircuitBreaker.onSuccess
onSuccess(b, t) ==
  LET b1 == [b EXCEPT !.failureCount = 0] IN
  IF b1.state = "HALF_OPEN"
    THEN LET b2 == [b1 EXCEPT !.successCount = b1.successCount + 1] IN
         IF b2.successCount >= b2.options.successThreshold
           THEN transitionTo(b2, "CLOSED", t)
           ELSE b2
    ELSE b1

\* onFailure opening one failure late (> for >=)
onFailure_OpensLate(b, t) ==
  LET b1 == [b EXCEPT !.failureCount = b.failureCount + 1,
                      !.lastFailureTime = t,
                      !.successCount = 0] IN
  IF b1.state = "HALF_OPEN"
    THEN transitionTo(b1, "OPEN", t)
  ELSE IF b1.state = "CLOSED" /\ b1.failureCount > b1.options.failureThreshold
    THEN transitionTo(b1, "OPEN", t)
  ELSE b1

\* CircuitBreaker.onFailure
onFailure(b, t) ==
  LET b1 == [b EXCEPT !.failureCount = b.failureCount + 1,
                      !.lastFailureTime = t,
                      !.successCount = 0] IN
  IF b1.state = "HALF_OPEN"
    THEN transitionTo(b1, "OPEN", t)
  ELSE IF b1.state = "CLOSED" /\ b1.failureCount >= b1.options.failureThreshold
    THEN transitionTo(b1, "OPEN", t)
  ELSE b1

\* CircuitBreaker.reset
\* reset() zeroing the counters without the transition to CLOSED
reset_CountersOnly(b, t) == [b EXCEPT !.failureCount = 0, !.successCount = 0]
reset(b, t) ==
  transitionTo([b EXCEPT !.failureCount = 0, !.successCount = 0], "CLOSED", t)

\* a getOrCreate that builds a new breaker from the options of every call
getOrCreate_Replaces(map, name, options) ==
  [map EXCEPT ![name] = NewCircuitBreaker(FullOptions(name, options))]

\* CircuitBreakerFactory.getOrCreate: the map after the call
getOrCreate(map, name, options) ==
  IF map[name] = NoBreaker
    THEN [map EXCEPT ![name] = NewCircuitBreaker(FullOptions(name, options))]
    ELSE map


(***************************************************************************)
(* SpecBreaker: breakers used directly through CircuitBreakerFactory, with  *)
(* several operations in flight on one breaker.                             *)
(***************************************************************************)
HalfReset == DefaultResetTimeout \div 2
BreakerTickSteps == {HalfReset, DefaultResetTimeout}
MaxNow == MaxTicks * HalfReset

\* the options callers pass to getOrCreate: none, or thresholds and a reset timeout
OptionChoices ==
  {NoOptions} \cup
  { [failureThreshold |-> f, successThreshold |-> s, resetTimeout |-> HalfReset] :
      f \in 1..MaxThreshold, s \in 1..MaxThreshold }

Exists(n) == breakers[n] # NoBreaker

\* history bookkeeping of srun: a run of successes starts when execute() turns the
\* breaker HALF_OPEN, and grows with each success recorded while it is HALF_OPEN
SuccessRunAfterAdmit(b, t, r) == IF b.state = "OPEN" /\ t >= b.nextRetryTime THEN 0 ELSE r
SuccessRunAfterSuccess(b, r) == IF b.state = "HALF_OPEN" THEN r + 1 ELSE r

InitBreaker ==
  /\ now = 0
  /\ breakers = [n \in BreakerNames |-> NoBreaker]
  /\ inflight = [n \in BreakerNames |-> 0]
  /\ run = [n \in BreakerNames |-> 0]
  /\ srun = [n \in BreakerNames |-> 0]
  /\ ev = [op |-> "init", name |-> "", result |-> ""]
  /\ registered = {}
  /\ defaultProvider = "openai"
  /\ fit = NoFit
  /\ cost = NoCost
  /\ admission = [n \in BreakerNames |-> NoAdmission]
  /\ calls = <<>>
  /\ cache = <<>>

\* CircuitBreakerFactory.getOrCreate(name, options)
BGetOrCreate(n, o) ==
  /\ breakers' = getOrCreate(breakers, n, o)
  /\ ev' = [op |-> "getOrCreate", name |-> n, result |-> ""]
  /\ UNCHANGED <<now, inflight, run, srun, svcVars>>

\* breaker.execute(operation) rejected: throws CircuitBreakerOpenError
BExecuteRejected(n) ==
  /\ Exists(n)
  /\ IsRejected(breakers[n], now)
  /\ ev' = [op |-> "execute", name |-> n, result |-> "CircuitBreakerOpenError"]
  /\ UNCHANGED <<now, breakers, inflight, run, srun, svcVars>>

\* breaker.execute(operation) admitted: operation() is called and awaited
BExecuteAdmitted(n) ==
  /\ Exists(n)
  /\ ~IsRejected(breakers[n], now)
  /\ inflight[n] < MaxInflight
  /\ breakers' = [breakers EXCEPT ![n] = Admit(@, now)]
  /\ inflight' = [inflight EXCEPT ![n] = @ + 1]
  /\ srun' = [srun EXCEPT ![n] = SuccessRunAfterAdmit(breakers[n], now, @)]
  /\ admission' = [admission EXCEPT ![n].closed =
                     IF Admit(breakers[n], now).state = "CLOSED" THEN @ + 1 ELSE @]
  /\ ev' = [op |-> "execute", name |-> n, result |-> "invoked"]
  /\ UNCHANGED <<now, run, registered, defaultProvider, calls, cache, fit, cost>>

\* the operation that settles is any of those in flight: one admitted while the
\* breaker was CLOSED, or one admitted as it went or was HALF_OPEN
SettledOperation(n) ==
  \/ /\ admission[n].closed > 0
     /\ admission' = [admission EXCEPT ![n] = [closed |-> @.closed - 1, settled |-> "CLOSED"]]
  \/ /\ inflight[n] > admission[n].closed
     /\ admission' = [admission EXCEPT ![n].settled = "HALF_OPEN"]

\* an awaited operation resolves: onSuccess(), the result is returned
BSettleSuccess(n) ==
  /\ Exists(n)
  /\ inflight[n] > 0
  /\ breakers' = [breakers EXCEPT ![n] = onSuccess(@, now)]
  /\ inflight' = [inflight EXCEPT ![n] = @ - 1]
  /\ run' = [run EXCEPT ![n] = 0]
  /\ srun' = [srun EXCEPT ![n] = SuccessRunAfterSuccess(breakers[n], @)]
  /\ SettledOperation(n)
  /\ ev' = [op |-> "success", name |-> n, result |-> "returned"]
  /\ UNCHANGED <<now, registered, defaultProvider, calls, cache, fit, cost>>

\* an awaited operation rejects: onFailure(), the error is re-thrown
BSettleFailure(n) ==
  /\ Exists(n)
  /\ inflight[n] > 0
  /\ breakers[n].failureCount < MaxFailureCount
  /\ breakers' = [breakers EXCEPT ![n] = onFailure(@, now)]
  /\ inflight' = [inflight EXCEPT ![n] = @ - 1]
  /\ run' = [run EXCEPT ![n] = @ + 1]
  /\ srun' = [srun EXCEPT ![n] = 0]
  /\ SettledOperation(n)
  /\ ev' = [op |-> "failure", name |-> n, result |-> "thrown"]
  /\ UNCHANGED <<now, registered, defaultProvider, calls, cache, fit, cost>>

\* CircuitBreakerFactory.reset(name)
BReset(n) ==
  /\ breakers' = [breakers EXCEPT ![n] = IF @ = NoBreaker THEN @ ELSE reset(@, now)]
  /\ run' = [run EXCEPT ![n] = 0]
  /\ srun' = [srun EXCEPT ![n] = 0]
  /\ ev' = [op |-> "reset", name |-> n, result |-> ""]
  /\ UNCHANGED <<now, inflight, svcVars>>

\* CircuitBreakerFactory.resetAll()
BResetAll ==
  /\ breakers' = [n \in BreakerNames |->
                    IF breakers[n] = NoBreaker THEN NoBreaker ELSE reset(breakers[n], now)]
  /\ run' = [n \in BreakerNames |-> 0]
  /\ srun' = [n \in BreakerNames |-> 0]
  /\ ev' = [op |-> "resetAll", name |-> "", result |-> ""]
  /\ UNCHANGED <<now, inflight, svcVars>>

\* time passes
BTick(d) ==
  /\ now + d <= MaxNow
  /\ now' = now + d
  /\ ev' = [op |-> "tick", name |-> "", result |-> ""]
  /\ UNCHANGED <<breakers, inflight, run, srun, svcVars>>

NextBreaker ==
  \/ \E n \in DirectNames, o \in OptionChoices : BGetOrCreate(n, o)
  \/ \E n \in DirectNames : BExecuteRejected(n)
  \/ \E n \in DirectNames : BExecuteAdmitted(n)
  \/ \E n \in DirectNames : BSettleSuccess(n)
  \/ \E n \in DirectNames : BSettleFailure(n)
  \/ \E n \in DirectNames : BReset(n)
  \/ BResetAll
  \/ \E d \in BreakerTickSteps : BTick(d)

SpecBreaker == InitBreaker /\ [][NextBreaker]_vars

(***************************************************************************)
(* Claims about the circuit breaker                                         *)
(***************************************************************************)
\* a step of breaker.execute() on n / a failure or a success recorded on n
IsExecuteStep(n) == ev'.op = "execute" /\ ev'.name = n
IsFailureStep(n) == run'[n] = run[n] + 1
IsSuccessStep(n) == ev'.op = "success" /\ ev'.name = n

\* C1: starting in CLOSED, once failureThreshold failures have been recorded with
\* no success in between, the breaker is OPEN (it is never CLOSED with that many
\* failures in a row, and the failure that completes the row opens it with
\* nextRetryTime = now + resetTimeout); while it is OPEN and now < nextRetryTime
\* every execute() throws CircuitBreakerOpenError and no operation is invoked.
C1_OpensAndRejects ==
  /\ [](\A n \in BreakerNames :
          Exists(n) /\ run[n] >= breakers[n].options.failureThreshold
            => breakers[n].state # "CLOSED")
  /\ [][\A n \in BreakerNames : Exists(n) =>
          /\ ( /\ breakers[n].state = "CLOSED"
               /\ IsFailureStep(n)
               /\ run'[n] >= breakers[n].options.failureThreshold )
             => /\ breakers'[n].state = "OPEN"
                /\ breakers'[n].nextRetryTime = now + breakers[n].options.resetTimeout
          /\ ( breakers[n].state = "OPEN" /\ now < breakers[n].nextRetryTime )
             => /\ inflight'[n] <= inflight[n]
                /\ IsExecuteStep(n)
                     => /\ ev'.result = "CircuitBreakerOpenError"
                        /\ breakers'[n] = breakers[n]
                        /\ inflight'[n] = inflight[n]
       ]_vars

\* C1 witness: a breaker opened by a row of failureThreshold failures has just
\* rejected an execute() before its retry time
C1_Witness ==
  \E n \in BreakerNames :
    /\ Exists(n)
    /\ breakers[n].state = "OPEN"
    /\ run[n] = breakers[n].options.failureThreshold
    /\ now < breakers[n].nextRetryTime
    /\ ev = [op |-> "execute", name |-> n, result |-> "CircuitBreakerOpenError"]

\* C2: an execute() on an OPEN breaker whose retry time is reached turns it
\* HALF_OPEN and invokes the operation; in HALF_OPEN the success that completes
\* a row of successThreshold successes closes it with both counters 0 (and it is
\* never HALF_OPEN with such a row behind it), a failure re-opens it with
\* nextRetryTime = now + resetTimeout and successCount 0; only reset() takes an
\* OPEN breaker to CLOSED in one step.
C2_HalfOpenProtocol ==
  /\ [](\A n \in BreakerNames :
          Exists(n) /\ breakers[n].state = "HALF_OPEN"
            => srun[n] < breakers[n].options.successThreshold)
  /\ [][\A n \in BreakerNames : Exists(n) =>
          /\ ( /\ breakers[n].state = "OPEN"
               /\ now >= breakers[n].nextRetryTime
               /\ IsExecuteStep(n) )
             => /\ breakers'[n].state = "HALF_OPEN"
                /\ ev'.result = "invoked"
                /\ inflight'[n] = inflight[n] + 1
          /\ ( breakers[n].state = "HALF_OPEN" /\ IsSuccessStep(n) )
             => IF srun'[n] >= breakers[n].options.successThreshold
                  THEN /\ breakers'[n].state = "CLOSED"
                       /\ breakers'[n].failureCount = 0
                       /\ breakers'[n].successCount = 0
                  ELSE breakers'[n].state = "HALF_OPEN"
          /\ ( breakers[n].state = "HALF_OPEN" /\ IsFailureStep(n) )
             => /\ breakers'[n].state = "OPEN"
                /\ breakers'[n].nextRetryTime = now + breakers[n].options.resetTimeout
                /\ breakers'[n].successCount = 0
          /\ ( breakers[n].state = "OPEN" /\ breakers'[n].state = "CLOSED" )
             => ev'.op \in {"reset", "resetAll"}
       ]_vars

\* C2 witness: a breaker that was OPEN has been closed by the last success of a
\* row of successThreshold successes in HALF_OPEN
C2_Witness ==
  \E n \in BreakerNames :
    /\ Exists(n)
    /\ breakers[n].state = "CLOSED"
    /\ srun[n] = breakers[n].options.successThreshold
    /\ breakers[n].nextRetryTime > 0
    /\ now >= breakers[n].nextRetryTime
    /\ ev = [op |-> "success", name |-> n, result |-> "returned"]


(***************************************************************************)
(* AIService: provider registry, response cache, retry loop                 *)
(***************************************************************************)
Undefined == "undefined"

\* the adapters AIService can register, in the order onModuleInit registers them
\* (a Map iterates in insertion order)
RegistrationOrder == <<"openai", "anthropic", "gemini">>
\* onModuleInit's priorityOrder for the default provider
PriorityOrder == <<"gemini", "openai", "anthropic">>

SeqRange(q) == {q[i] : i \in 1..Len(q)}
\* the first element of q that is in S, or none when there is none
FirstIn(q, S, none) ==
  IF \E i \in 1..Len(q) : q[i] \in S
    THEN q[CHOOSE i \in 1..Len(q) : q[i] \in S /\ \A j \in 1..(i - 1) : q[j] \notin S]
    ELSE none

\* onModuleInit: defaultProvider stays OPENAI when it is registered (or when
\* nothing is), else it becomes the first registered provider of priorityOrder
DefaultProviderFor(reg) ==
  IF "openai" \in reg THEN "openai" ELSE FirstIn(PriorityOrder, reg, "openai")

\* AIService.getProvider(preferred): the adapter's name, or "throw" for
\* Error('No AI provider available')
getProvider(reg, dflt, preferred) ==
  LET providerKey == IF preferred = Undefined THEN dflt ELSE preferred IN
  IF providerKey \in reg
    THEN providerKey
    ELSE FirstIn(RegistrationOrder, reg, "throw")

\* AIService.getCacheKey: JSON.stringify of the five fields, in this order; the
\* stream flag and the provider are not part of it
getCacheKey(request) ==
  << request.messages, request.model, request.maxTokens,
     request.temperature, request.responseFormat >>

CACHE_TTL_MS == 5 * 60 * 1000
NoEntry == [response |-> [from |-> "none", call |-> 0, attempt |-> 0, cached |-> FALSE],
            timestamp |-> -1]

\* a lookup that still serves an entry whose age equals the TTL (<= for <)
IsCacheHit_AtTTL(entry, t) == entry # NoEntry /\ t - entry.timestamp <= CACHE_TTL_MS

\* the cache lookup of complete(): an entry exists and is younger than the TTL
IsCacheHit(entry, t) == entry # NoEntry /\ t - entry.timestamp < CACHE_TTL_MS

\* a store that keeps the entry a key already has
StoreResponse_KeepsFirst(c, key, response, t) ==
  IF c[key] # NoEntry
    THEN c
    ELSE [c EXCEPT ![key] = [response |-> response, timestamp |-> t]]

\* complete() storing a response: this.cache.set(cacheKey, {response, timestamp})
StoreResponse(c, key, response, t) ==
  [c EXCEPT ![key] = [response |-> response, timestamp |-> t]]

\* a sweep that deletes every entry older than 0 ms
cleanCache_Eager(c, t) ==
  [k \in DOMAIN c |->
     IF c[k] # NoEntry /\ t - c[k].timestamp > 0 THEN NoEntry ELSE c[k]]

\* the condition with the streaming flag left out
UsesCache_IgnoresStream(useCache, request) == useCache

\* the condition of complete() for looking up and for storing:
\* useCache && !request.stream
UsesCache(useCache, request) == useCache /\ ~request.stream

\* a sweep that already deletes an entry whose age equals the TTL (>= for >)
cleanCache_AtTTL(c, t) ==
  [k \in DOMAIN c |->
     IF c[k] # NoEntry /\ t - c[k].timestamp >= CACHE_TTL_MS THEN NoEntry ELSE c[k]]

\* AIService.cleanCache at time t
cleanCache(c, t) ==
  [k \in DOMAIN c |->
     IF c[k] # NoEntry /\ t - c[k].timestamp > CACHE_TTL_MS THEN NoEntry ELSE c[k]]

\* AIService.isNonRetryableError: error.status is one of 400, 401, 403, 404
NonRetryableCodes == {400, 401, 403, 404}
\* isNonRetryableError without the 404 of its list
isNonRetryableError_Without404(error) == error.status \in {400, 401, 403}
isNonRetryableError(error) == error.status \in NonRetryableCodes

\* the backoff of complete(): Math.min(1000 * Math.pow(2, attempt - 1), 10000)
BackoffBase == 1000
BackoffCap == 10000
Min(a, b) == IF a <= b THEN a ELSE b
Max(a, b) == IF a >= b THEN a ELSE b
\* the backoff without its Math.min cap
BackoffDelay_Uncapped(attempt) == BackoffBase * 2 ^ (attempt - 1)
BackoffDelay(attempt) == Min(BackoffBase * 2 ^ (attempt - 1), BackoffCap)

\* the options complete() passes to CircuitBreakerFactory.getOrCreate
ServiceFailureThreshold == 5
ServiceSuccessThreshold == 2
ServiceResetTimeout == 60000
ServiceBreakerOptions ==
  [ failureThreshold |-> ServiceFailureThreshold,
    successThreshold |-> ServiceSuccessThreshold,
    resetTimeout |-> ServiceResetTimeout ]

DefaultMaxRetries == 3


(***************************************************************************)
(* The requests and options of complete(); optional fields that are absent  *)
(* are absent from the record, field values are written as JSON prints them *)
(***************************************************************************)
Messages1 == << [role |-> "system", content |-> "s"], [role |-> "user", content |-> "q1"] >>
Messages2 == << [role |-> "system", content |-> "s"], [role |-> "user", content |-> "q2"] >>
Request(m, st) ==
  [ messages |-> m, model |-> Undefined, maxTokens |-> Undefined,
    temperature |-> Undefined, responseFormat |-> Undefined, stream |-> st ]
Requests == {Request(m, st) : m \in {Messages1, Messages2}, st \in BOOLEAN}
CacheKeys == {getCacheKey(r) : r \in Requests}

Opt(options, field, default) ==
  IF field \in DOMAIN options THEN options[field] ELSE default

\* provider errors by their status; NoStatus is an error that carries none
\* (a timeout, a network error)
NoStatus == 0
Ok == 200
ErrorStatuses == {400, 401, 403, 404, 500, NoStatus}

NoError == [kind |-> "none", status |-> NoStatus, attempt |-> 0]
ProviderError(status, attempt) == [kind |-> "provider", status |-> status, attempt |-> attempt]
CircuitBreakerOpenError(attempt) ==
  [kind |-> "CircuitBreakerOpenError", status |-> NoStatus, attempt |-> attempt]
NoProviderError == [kind |-> "No AI provider available", status |-> NoStatus, attempt |-> 0]
AfterRetriesError ==
  [kind |-> "AI completion failed after retries", status |-> NoStatus, attempt |-> 0]
\* what a rejected trackUsage() would hand to the catch block of complete()
UsageError(attempt) == [kind |-> "usage", status |-> NoStatus, attempt |-> attempt]

\* trackUsage letting the failure of its logging out of its try block
trackUsage_Rethrows(logFails) ==
  [settled |-> IF logFails THEN "rejected" ELSE "resolved", errorLogged |-> logFails]

\* AIService.trackUsage: the record is logged inside try/catch; when that throws
\* (logFails) the catch logs the failure and the promise still resolves
trackUsage(logFails) == [settled |-> "resolved", errorLogged |-> logFails]
NoResponse == NoEntry.response

\* a call of complete() or stream(): its locals, and as history the sleeps it
\* made, the provider invocations it caused, the trackUsage calls it made
\* (tracked) and whether one of them failed and was logged (usageError), the
\* time it ended, and, taken when it began, the calls that had ended (after)
\* and those that had ended less than CACHE_TTL_MS earlier (recent)
IdleCall ==
  [ op |-> "complete", tracked |-> 0, usageError |-> FALSE,
    pc |-> "idle", request |-> Request(Messages1, FALSE), options |-> <<>>,
    adapter |-> "none", breaker |-> "none", useCache |-> TRUE, maxRetries |-> 0,
    attempt |-> 0, wakeAt |-> 0, invoked |-> 0, sleeps |-> <<>>,
    lastError |-> NoError, response |-> NoResponse, thrown |-> NoError,
    after |-> {}, recent |-> {}, endedAt |-> -1 ]

\* complete() returns / throws
\* a return that leaves the error of an earlier attempt in the outcome
Returned_KeepsError(cr, resp) ==
  [cr EXCEPT !.pc = "done", !.response = resp, !.thrown = cr.lastError, !.endedAt = now]
Returned(cr, resp) == [cr EXCEPT !.pc = "done", !.response = resp, !.endedAt = now]
\* the final throw raising the fallback Error in place of lastError
Threw_AfterRetries(cr, err) ==
  [cr EXCEPT !.pc = "done", !.thrown = AfterRetriesError, !.endedAt = now]
Threw(cr, err) == [cr EXCEPT !.pc = "done", !.thrown = err, !.endedAt = now]

ServiceEvent == [op |-> "service", name |-> "", result |-> ""]

\* the catch block treating CircuitBreakerOpenError as a retryable error
TryAttempt_RetriesWhenOpen(c, cr, map) ==
  LET n == cr.breaker
      rejected == [cr EXCEPT !.lastError = CircuitBreakerOpenError(cr.attempt)]
  IN
  IF IsRejected(map[n], now)
    THEN /\ calls' = [calls EXCEPT ![c] =
                        IF cr.attempt < cr.maxRetries
                          THEN [rejected EXCEPT !.pc = "sleeping",
                                                !.sleeps = Append(@, BackoffDelay(cr.attempt)),
                                                !.wakeAt = now + BackoffDelay(cr.attempt)]
                          ELSE Threw(rejected, CircuitBreakerOpenError(cr.attempt))]
         /\ breakers' = map
         /\ UNCHANGED <<inflight, srun>>
    ELSE /\ calls' = [calls EXCEPT ![c] =
                        [cr EXCEPT !.pc = "awaiting", !.invoked = @ + 1]]
         /\ breakers' = [map EXCEPT ![n] = Admit(@, now)]
         /\ inflight' = [inflight EXCEPT ![n] = @ + 1]
         /\ srun' = [srun EXCEPT ![n] = SuccessRunAfterAdmit(map[n], now, @)]

\* one iteration of the retry loop up to the await: circuitBreaker.execute(() =>
\* provider.complete(request)) either throws CircuitBreakerOpenError, which the
\* catch block re-throws, or calls the provider; cr.attempt is the attempt number
TryAttempt(c, cr, map) ==
  LET n == cr.breaker IN
  IF IsRejected(map[n], now)
    THEN /\ calls' = [calls EXCEPT ![c] =
                        Threw([cr EXCEPT !.lastError = CircuitBreakerOpenError(cr.attempt)],
                              CircuitBreakerOpenError(cr.attempt))]
         /\ breakers' = map
         /\ UNCHANGED <<inflight, srun>>
    ELSE /\ calls' = [calls EXCEPT ![c] =
                        [cr EXCEPT !.pc = "awaiting", !.invoked = @ + 1]]
         /\ breakers' = [map EXCEPT ![n] = Admit(@, now)]
         /\ inflight' = [inflight EXCEPT ![n] = @ + 1]
         /\ srun' = [srun EXCEPT ![n] = SuccessRunAfterAdmit(map[n], now, @)]


(***************************************************************************)
(* AIService.complete(request, options) as call c                           *)
(***************************************************************************)
\* the calls, numbered in the order they are made
CallIds == {1, 2}

\* a cached response handed out without the mark
CachedCopy_Unmarked(response) == response
\* what a cache hit returns: { ...cached.response, cached: true }
CachedCopy(response) == [response EXCEPT !.cached = TRUE]

\* a breaker named after the adapter getProvider resolved
CircuitBreakerNameOf_Resolved(preferred, default, adapter) == BreakerName(adapter)
\* the name complete() gives getOrCreate: `ai-${options?.provider || this.defaultProvider}`
CircuitBreakerNameOf(preferred, default, adapter) ==
  BreakerName(IF preferred = Undefined THEN default ELSE preferred)

\* a lookup that is skipped while the breaker of the call rejects
ServedByLookup_UnlessRejected(uses, entry, t, b) ==
  uses /\ IsCacheHit(entry, t) /\ ~( b # NoBreaker /\ IsRejected(b, t) )

\* whether complete() returns from its cache lookup: the lookup comes before
\* the breaker b of the call is obtained, and does not look at it
ServedByLookup(uses, entry, t, b) == uses /\ IsCacheHit(entry, t)

\* complete() from its entry to its first await: getProvider, the cache lookup,
\* getOrCreate of the breaker, and the first iteration of the loop
Start(c, req, opts) ==
  /\ calls[c].pc = "idle"
  /\ \A d \in CallIds : d < c => calls[d].pc # "idle"
  /\ LET adapter == getProvider(registered, defaultProvider, Opt(opts, "provider", Undefined))
         useCache == Opt(opts, "useCache", TRUE)
         maxRetries == Opt(opts, "maxRetries", DefaultMaxRetries)
         key == getCacheKey(req)
         name == CircuitBreakerNameOf(Opt(opts, "provider", Undefined), defaultProvider,
                                      adapter)
         cr == [calls[c] EXCEPT !.request = req, !.options = opts, !.adapter = adapter,
                                !.breaker = name, !.useCache = useCache,
                                !.maxRetries = maxRetries, !.attempt = 1,
                                !.after = {d \in CallIds : calls[d].pc = "done"},
                                !.recent = {d \in CallIds :
                                              /\ calls[d].pc = "done"
                                              /\ now - calls[d].endedAt < CACHE_TTL_MS}]
         map == getOrCreate(breakers, name, ServiceBreakerOptions)
     IN
     IF adapter = "throw"
       THEN /\ calls' = [calls EXCEPT ![c] =
                           Threw([cr EXCEPT !.breaker = "none", !.attempt = 0], NoProviderError)]
            /\ UNCHANGED <<breakers, inflight, srun>>
     ELSE IF ServedByLookup(UsesCache(useCache, req), cache[key], now, breakers[name])
       THEN /\ calls' = [calls EXCEPT ![c] =
                           Returned([cr EXCEPT !.breaker = "none", !.attempt = 0],
                                    CachedCopy(cache[key].response))]
            /\ UNCHANGED <<breakers, inflight, srun>>
     ELSE IF 1 <= maxRetries
       THEN TryAttempt(c, cr, map)
       ELSE /\ calls' = [calls EXCEPT ![c] = Threw([cr EXCEPT !.attempt = 0], AfterRetriesError)]
            /\ breakers' = map
            /\ UNCHANGED <<inflight, srun>>
  /\ ev' = ServiceEvent
  /\ UNCHANGED <<now, run, registered, defaultProvider, ctxVars, cache>>

\* the awaited provider.complete() settles with `outcome`: execute() records it on
\* the breaker; on success complete() stores the response, tracks usage when
\* options.projectId is given (logFails: the logging inside trackUsage throws)
\* and returns; on failure the catch block re-throws, sleeps, or leaves the loop
ProviderSettles(c, outcome, logFails) ==
  LET cr == calls[c]
      n == cr.breaker
  IN
  /\ cr.pc = "awaiting"
  /\ cr.op = "complete"
  \* logFails matters only where trackUsage is called
  /\ logFails => ( outcome = Ok /\ "projectId" \in DOMAIN cr.options )
  /\ ev' = ServiceEvent
  /\ inflight' = [inflight EXCEPT ![n] = @ - 1]
  /\ UNCHANGED <<now, registered, defaultProvider, ctxVars>>
  /\ IF outcome = Ok
       THEN LET response == [from |-> cr.adapter, call |-> c,
                             attempt |-> cr.attempt, cached |-> FALSE]
                stores == UsesCache(cr.useCache, cr.request)
            IN
            /\ breakers' = [breakers EXCEPT ![n] = onSuccess(@, now)]
            /\ run' = [run EXCEPT ![n] = 0]
            /\ srun' = [srun EXCEPT ![n] = SuccessRunAfterSuccess(breakers[n], @)]
            /\ cache' = IF stores
                          THEN StoreResponse(cache, getCacheKey(cr.request), response, now)
                          ELSE cache
            /\ calls' = [calls EXCEPT ![c] =
                 IF "projectId" \in DOMAIN cr.options
                   THEN LET usage == trackUsage(logFails)
                            tracked == [cr EXCEPT !.tracked = @ + 1,
                                                  !.usageError = usage.errorLogged]
                            failed == [tracked EXCEPT !.lastError = UsageError(cr.attempt)]
                        IN
                        IF usage.settled = "resolved"
                          THEN Returned(tracked, response)
                        \* a rejection of the awaited trackUsage lands in the catch block
                        ELSE IF cr.attempt < cr.maxRetries
                          THEN [failed EXCEPT !.pc = "sleeping",
                                              !.sleeps = Append(@, BackoffDelay(cr.attempt)),
                                              !.wakeAt = now + BackoffDelay(cr.attempt)]
                        ELSE Threw(failed, UsageError(cr.attempt))
                   ELSE Returned(cr, response)]
       ELSE LET err == ProviderError(outcome, cr.attempt)
                failed == [cr EXCEPT !.lastError = err]
            IN
            /\ breakers[n].failureCount < MaxFailureCount
            /\ breakers' = [breakers EXCEPT ![n] = onFailure(@, now)]
            /\ run' = [run EXCEPT ![n] = @ + 1]
            /\ srun' = [srun EXCEPT ![n] = 0]
            /\ cache' = cache
            /\ calls' = [calls EXCEPT ![c] =
                 IF isNonRetryableError(err)
                   THEN Threw(failed, err)
                 ELSE IF cr.attempt < cr.maxRetries
                   THEN [failed EXCEPT !.pc = "sleeping",
                                       !.sleeps = Append(@, BackoffDelay(cr.attempt)),
                                       !.wakeAt = now + BackoffDelay(cr.attempt)]
                 ELSE Threw(failed, err)]

\* the backoff timer of a sleeping call fires (setTimeout: at its delay or later):
\* the loop goes to its next iteration
Wake(c) ==
  /\ calls[c].pc = "sleeping"
  /\ now >= calls[c].wakeAt
  /\ TryAttempt(c, [calls[c] EXCEPT !.attempt = @ + 1], breakers)
  /\ ev' = ServiceEvent
  /\ UNCHANGED <<now, run, registered, defaultProvider, ctxVars, cache>>

\* time passes until the backoff timer of call c is due
AdvanceToTimer(c) ==
  /\ calls[c].pc = "sleeping"
  /\ now < calls[c].wakeAt
  /\ now' = calls[c].wakeAt
  /\ ev' = ServiceEvent
  /\ UNCHANGED <<breakers, inflight, run, srun, registered, defaultProvider, ctxVars, calls, cache>>

\* AIService.stream(request, options) as call c, from the consumer's first next()
\* to the first await: getProvider, then provider.stream(request) is started;
\* no cache, no breaker, no retry loop
StreamStart(c, req, opts) ==
  /\ calls[c].pc = "idle"
  /\ \A d \in CallIds : d < c => calls[d].pc # "idle"
  /\ LET adapter == getProvider(registered, defaultProvider, Opt(opts, "provider", Undefined))
         cr == [calls[c] EXCEPT !.op = "stream", !.request = req, !.options = opts,
                                !.adapter = adapter, !.useCache = FALSE,
                                !.after = {d \in CallIds : calls[d].pc = "done"},
                                !.recent = {d \in CallIds :
                                              /\ calls[d].pc = "done"
                                              /\ now - calls[d].endedAt < CACHE_TTL_MS}]
     IN
     calls' = [calls EXCEPT ![c] =
                 IF adapter = "throw"
                   THEN Threw(cr, NoProviderError)
                   ELSE [cr EXCEPT !.pc = "streaming", !.attempt = 1, !.invoked = @ + 1]]
  /\ ev' = ServiceEvent
  /\ UNCHANGED <<now, breakers, inflight, run, srun, registered, defaultProvider, ctxVars, cache>>

\* a stream() that starts the provider's stream again after a failure, as the
\* loop of complete() does
StreamFailed_Retries(cr, err) ==
  IF cr.attempt < DefaultMaxRetries
    THEN [cr EXCEPT !.lastError = err, !.attempt = @ + 1, !.invoked = @ + 1]
    ELSE Threw([cr EXCEPT !.lastError = err], err)

\* the provider's stream throws inside stream(): there is no catch, the error
\* goes on to the consumer
StreamFailed(cr, err) == Threw([cr EXCEPT !.lastError = err], err)

\* the provider's stream ends (Ok) or throws; the finally block tracks usage
\* when options.projectId is given and a chunk carried usage (usageSeen), then
\* the generator returns or the provider's error goes on to the consumer
StreamSettles(c, outcome, usageSeen, logFails) ==
  LET cr == calls[c]
      tracks == "projectId" \in DOMAIN cr.options /\ usageSeen
      usage == trackUsage(logFails)
      after == IF tracks
                 THEN [cr EXCEPT !.tracked = @ + 1, !.usageError = usage.errorLogged]
                 ELSE cr
  IN
  /\ cr.pc = "streaming"
  /\ cr.op = "stream"
  /\ usageSeen => "projectId" \in DOMAIN cr.options
  /\ logFails => tracks
  /\ calls' = [calls EXCEPT ![c] =
       \* a rejection of the awaited trackUsage would replace the outcome
       IF tracks /\ usage.settled = "rejected"
         THEN Threw(after, UsageError(1))
       ELSE IF outcome = Ok
         THEN Returned(after, [from |-> cr.adapter, call |-> c, attempt |-> 1,
                               cached |-> FALSE])
       ELSE StreamFailed(after, ProviderError(outcome, 1))]
  /\ ev' = ServiceEvent
  /\ UNCHANGED <<now, breakers, inflight, run, srun, registered, defaultProvider, ctxVars, cache>>

\* the setInterval sweep of onModuleInit runs
CleanCache ==
  /\ cache' = cleanCache(cache, now)
  /\ ev' = ServiceEvent
  /\ UNCHANGED <<now, breakers, inflight, run, srun, registered, defaultProvider, ctxVars, calls>>

\* time passes, once a call has been made: by d, from a time before `horizon`
ServiceTick(d, horizon) ==
  /\ calls[1].pc # "idle"
  /\ now < horizon
  /\ now' = now + d
  /\ ev' = ServiceEvent
  /\ UNCHANGED <<breakers, inflight, run, srun, registered, defaultProvider, ctxVars, calls, cache>>

\* the state after onModuleInit, with the adapters of `reg` available, for the
\* calls `ids` to come
ServiceAfterInitFor(reg, ids) ==
  /\ now = 0
  /\ breakers = [n \in BreakerNames |-> NoBreaker]
  /\ inflight = [n \in BreakerNames |-> 0]
  /\ run = [n \in BreakerNames |-> 0]
  /\ srun = [n \in BreakerNames |-> 0]
  /\ ev = ServiceEvent
  /\ registered = reg
  /\ defaultProvider = DefaultProviderFor(reg)
  /\ calls = [c \in ids |-> IdleCall]
  /\ cache = [k \in CacheKeys |-> NoEntry]
  /\ admission = [n \in BreakerNames |-> NoAdmission]

ServiceAfterInit(reg) == ServiceAfterInitFor(reg, CallIds)

InitService(reg) == ServiceAfterInit(reg) /\ fit = NoFit /\ cost = NoCost


(***************************************************************************)
(* SpecRetry: complete() calls on one registered provider, the cache off,   *)
(* with maxRetries omitted (3) or given; two calls may overlap and share    *)
(* the provider's breaker                                                   *)
(***************************************************************************)
MaxRetriesGiven == 6
MaxRetryTicks == 1
RetryRequests == {Request(Messages1, FALSE)}
RetryOptions ==
  { [useCache |-> FALSE] } \cup
  { [useCache |-> FALSE, maxRetries |-> r] : r \in {1, MaxRetriesGiven} }

InitRetry == InitService({"openai"})

RetryOutcomes == {Ok, 401, 500, NoStatus}

NextRetry ==
  \/ \E c \in CallIds, req \in RetryRequests, opts \in RetryOptions : Start(c, req, opts)
  \/ \E c \in CallIds, outcome \in RetryOutcomes : ProviderSettles(c, outcome, FALSE)
  \/ \E c \in CallIds : Wake(c)
  \/ \E c \in CallIds : AdvanceToTimer(c)
  \/ ServiceTick(ServiceResetTimeout, MaxRetryTicks * ServiceResetTimeout)

SpecRetry == InitRetry /\ [][NextRetry]_vars


(***************************************************************************)
(* SpecStatus: one complete() call, the provider answering with any of the  *)
(* statuses                                                                 *)
(***************************************************************************)
NextStatus ==
  \/ \E req \in RetryRequests, opts \in RetryOptions : Start(1, req, opts)
  \/ \E outcome \in {Ok} \cup ErrorStatuses : ProviderSettles(1, outcome, FALSE)
  \/ Wake(1)
  \/ AdvanceToTimer(1)
  \/ ServiceTick(ServiceResetTimeout, MaxRetryTicks * ServiceResetTimeout)

SpecStatus == InitRetry /\ [][NextStatus]_vars


(***************************************************************************)
(* Properties of the retry loop                                             *)
(***************************************************************************)
\* the awaited attempt of call c fails in this step with a status in S
AttemptFailsWith(c, S) ==
  /\ calls[c].pc = "awaiting"
  /\ calls'[c].pc # "awaiting"
  /\ calls'[c].lastError.kind = "provider"
  /\ calls'[c].lastError.attempt = calls[c].attempt
  /\ calls'[c].lastError.status \in S

\* call c ended on a provider error with a status of 400, 401, 403 or 404
EndedNonRetryable(c) ==
  /\ calls[c].pc = "done"
  /\ calls[c].thrown.kind = "provider"
  /\ calls[c].thrown.status \in {400, 401, 403, 404}

\* a call that has returned or thrown does nothing more
DoneIsFinal == \A c \in CallIds : calls[c].pc = "done" => calls'[c] = calls[c]

\* the delay the loop is expected to sleep after failed attempt i
ExpectedDelay(i) == IF i <= 4 THEN 1000 * 2 ^ (i - 1) ELSE 10000

C3_State ==
  \A c \in CallIds :
    EndedNonRetryable(c) =>
      /\ calls[c].thrown = calls[c].lastError
      /\ calls[c].invoked = calls[c].thrown.attempt
      /\ Len(calls[c].sleeps) = calls[c].invoked - 1
      /\ calls[c].response = NoResponse

C3_Step ==
  \A c \in CallIds :
    AttemptFailsWith(c, {400, 401, 403, 404}) =>
      /\ calls'[c].pc = "done"
      /\ calls'[c].thrown = calls'[c].lastError
      /\ calls'[c].sleeps = calls[c].sleeps
      /\ calls'[c].invoked = calls[c].invoked
      /\ calls[c].attempt = 1 => calls'[c].invoked = 1

\* C3 (as amended): for every maxRetries >= 1, an attempt of complete() that fails
\* with status 400, 401, 403 or 404 ends the call in that very step with that same
\* error thrown, no backoff sleep added and no later attempt, so the provider has
\* been invoked once per attempt up to the failing one and no more: exactly once
\* when the failing attempt is the first
C3_NonRetryableNotRetried == []C3_State /\ [][C3_Step /\ DoneIsFinal]_vars

\* C3 witness: a call with maxRetries = MaxRetriesGiven whose first attempt failed
\* with 404 has thrown that error after one invocation and no sleep
C3_Witness ==
  \E c \in CallIds :
    /\ calls[c].pc = "done"
    /\ calls[c].maxRetries = MaxRetriesGiven
    /\ calls[c].thrown = ProviderError(404, 1)
    /\ calls[c].invoked = 1
    /\ calls[c].sleeps = <<>>

\* C3 as stated: whenever an attempt of a call fails with status 400, 401, 403 or
\* 404, the provider has been invoked exactly once for that call
C3_Original == \A c \in CallIds : EndedNonRetryable(c) => calls[c].invoked = 1


\* call c returned a response that came from the provider in this call
ReturnedFromProvider(c) ==
  /\ calls[c].pc = "done"
  /\ calls[c].response # NoResponse
  /\ ~calls[c].response.cached

C5_State ==
  \A c \in CallIds :
    ReturnedFromProvider(c) =>
      /\ calls[c].response.call = c
      /\ calls[c].response.attempt = calls[c].invoked
      /\ calls[c].invoked <= calls[c].maxRetries
      /\ Len(calls[c].sleeps) = calls[c].invoked - 1
      /\ \A i \in 1..Len(calls[c].sleeps) : calls[c].sleeps[i] = ExpectedDelay(i)
      /\ calls[c].thrown = NoError

\* the steps of the loop around a retryable failure; `unlessOpen` says whether
\* the next attempt is promised only when the breaker does not reject it
C5_Step(unlessOpen) ==
  \A c \in CallIds :
    \* a retryable failure before the last attempt is followed by the backoff sleep
    /\ ( AttemptFailsWith(c, ErrorStatuses \ {400, 401, 403, 404})
         /\ calls[c].attempt < calls[c].maxRetries )
       => /\ calls'[c].pc = "sleeping"
          /\ calls'[c].sleeps = Append(calls[c].sleeps, ExpectedDelay(calls[c].attempt))
          /\ calls'[c].wakeAt = now + ExpectedDelay(calls[c].attempt)
    \* the sleep lasts at least the delay, and the next attempt invokes the provider
    /\ ( calls[c].pc = "sleeping" /\ calls'[c].pc # "sleeping" )
       => /\ now >= calls[c].wakeAt
          /\ calls'[c].attempt = calls[c].attempt + 1
          /\ ( unlessOpen /\ IsRejected(breakers[calls[c].breaker], now) )
             \/ ( /\ calls'[c].pc = "awaiting"
                  /\ calls'[c].invoked = calls[c].invoked + 1 )
    \* a success ends the call with that attempt's response and without a sleep
    /\ ( calls[c].pc = "awaiting" /\ calls'[c].response # NoResponse )
       => /\ calls'[c].pc = "done"
          /\ calls'[c].response.attempt = calls[c].attempt
          /\ calls'[c].sleeps = calls[c].sleeps

AllAttemptsFailedRetryable(c) ==
  /\ calls[c].pc = "done"
  /\ calls[c].invoked >= 1
  /\ calls[c].response = NoResponse
  /\ ~EndedNonRetryable(c)

\* the provider was invoked maxRetries times, with a sleep after each attempt but
\* the last, and the error thrown is the provider's error of the last attempt
ExhaustedRetries(c) ==
  /\ calls[c].invoked = calls[c].maxRetries
  /\ Len(calls[c].sleeps) = calls[c].maxRetries - 1
  /\ calls[c].thrown.kind = "provider"
  /\ calls[c].thrown.attempt = calls[c].maxRetries
  /\ calls[c].thrown = calls[c].lastError

C6_State ==
  \A c \in CallIds :
    AllAttemptsFailedRetryable(c) =>
      IF calls[c].thrown.kind = "CircuitBreakerOpenError"
        THEN /\ calls[c].invoked = calls[c].thrown.attempt - 1
             /\ Len(calls[c].sleeps) = calls[c].invoked
        ELSE ExhaustedRetries(c)

C6_Step ==
  \A c \in CallIds :
    AttemptFailsWith(c, ErrorStatuses \ {400, 401, 403, 404}) =>
      IF calls[c].attempt < calls[c].maxRetries
        THEN calls'[c].pc = "sleeping" /\ calls'[c].thrown = NoError
        ELSE calls'[c].pc = "done" /\ calls'[c].thrown = calls'[c].lastError

\* C6 (as amended): if every provider attempt of a complete() call fails with a
\* retryable error and no attempt is rejected by an open circuit breaker, the
\* provider is invoked exactly maxRetries times, a backoff sleep follows each
\* failed attempt except the last, and the error thrown is the provider error of
\* the last attempt; a retryable provider error is thrown only by the attempt
\* numbered maxRetries. A call whose attempt a is rejected by the breaker ends
\* with CircuitBreakerOpenError after a-1 invocations
C6_RetriesExhausted == []C6_State /\ [][C6_Step]_vars

\* C6 witness: a call with the default maxRetries = 3 failed three times with
\* status 500, slept twice, and threw the error of the third attempt
C6_Witness ==
  \E c \in CallIds :
    /\ AllAttemptsFailedRetryable(c)
    /\ "maxRetries" \notin DOMAIN calls[c].options
    /\ calls[c].invoked = 3
    /\ calls[c].sleeps = <<1000, 2000>>
    /\ calls[c].thrown = ProviderError(500, 3)

\* C6 as stated: whenever every provider attempt of a call failed with a
\* retryable error, the provider was invoked exactly maxRetries times and the
\* error thrown is the provider error of the last attempt
C6_Original == \A c \in CallIds : AllAttemptsFailedRetryable(c) => ExhaustedRetries(c)

\* in this step an attempt of call c (the first one, or one after a sleep) meets
\* a breaker that is OPEN with its retry time not yet reached
MeetsOpenBreaker(c) ==
  /\ calls[c].pc \in {"idle", "sleeping"}
  /\ calls'[c].pc # calls[c].pc
  /\ calls'[c].breaker # "none"
  /\ calls'[c].attempt >= 1
  /\ breakers[calls'[c].breaker].state = "OPEN"
  /\ now < breakers[calls'[c].breaker].nextRetryTime

C7_Step ==
  \A c \in CallIds :
    MeetsOpenBreaker(c) =>
      /\ calls'[c].pc = "done"
      /\ calls'[c].thrown = CircuitBreakerOpenError(calls'[c].attempt)
      /\ calls'[c].attempt = calls[c].attempt + 1
      /\ calls'[c].invoked = calls[c].invoked
      /\ calls'[c].sleeps = calls[c].sleeps
      /\ calls'[c].response = NoResponse
      /\ inflight' = inflight
      /\ breakers' = breakers

\* C7: an attempt of complete() that meets an OPEN breaker whose retry time has
\* not elapsed invokes no provider, and complete() throws CircuitBreakerOpenError
\* in that very step, with no backoff sleep and no further attempt, on the first
\* attempt and on any later one
C7_OpenBreakerSurfacesAtOnce == [][C7_Step /\ DoneIsFinal]_vars

\* C7 witness: one call was rejected on a later attempt, after the failures of
\* its own attempts, and another call was rejected on its first attempt
C7_Witness ==
  \E c, d \in CallIds :
    /\ calls[c].pc = "done"
    /\ calls[c].thrown.kind = "CircuitBreakerOpenError"
    /\ calls[c].thrown.attempt >= 2
    /\ calls[c].invoked = calls[c].thrown.attempt - 1
    /\ Len(calls[c].sleeps) = calls[c].invoked
    /\ calls[d].pc = "done"
    /\ calls[d].thrown = CircuitBreakerOpenError(1)
    /\ calls[d].invoked = 0
    /\ calls[d].sleeps = <<>>


(***************************************************************************)
(* SpecCache: two complete() calls made one after the other on one          *)
(* registered provider, with the cache sweep running and time passing up    *)
(* to and beyond the TTL                                                    *)
(***************************************************************************)
MaxCacheTicks == 3
CacheTick == CACHE_TTL_MS \div 2
CacheOptions == { [operation |-> "plan"], [useCache |-> FALSE], [maxRetries |-> 2] }
CacheOutcomes == {Ok, 500}

\* call c is made when every earlier call has returned or thrown
StartAfter(c, req, opts) ==
  /\ \A d \in CallIds : d < c => calls[d].pc = "done"
  /\ Start(c, req, opts)

NextCache ==
  \/ \E c \in CallIds, req \in Requests, opts \in CacheOptions : StartAfter(c, req, opts)
  \/ \E c \in CallIds, outcome \in CacheOutcomes : ProviderSettles(c, outcome, FALSE)
  \/ \E c \in CallIds : Wake(c)
  \/ \E c \in CallIds : AdvanceToTimer(c)
  \/ CleanCache
  \/ ServiceTick(CacheTick, MaxCacheTicks * CacheTick)

SpecCache == InitRetry /\ [][NextCache]_vars

\* call c has the cache enabled and a request that is not streaming
Cacheable(c) == calls[c].useCache /\ ~calls[c].request.stream

\* d and c are two calls with identical {messages, model, maxTokens, temperature,
\* responseFormat}, both cacheable, c made after d had ended and less than
\* CACHE_TTL_MS after that
SecondWithinTTL(d, c) ==
  /\ calls[c].pc # "idle"
  /\ d \in calls[c].after
  /\ d \in calls[c].recent
  /\ Cacheable(d)
  /\ Cacheable(c)
  /\ getCacheKey(calls[d].request) = getCacheKey(calls[c].request)

\* C4 (as amended): of two sequential complete() calls with identical {messages,
\* model, maxTokens, temperature, responseFormat}, non-streaming, with caching
\* enabled, where the first returned a response of the provider and the second
\* begins less than the cache TTL after the first returned: the second returns
\* the first's response with cached=true and invokes no provider, so the provider
\* is invoked in total as often as the first call invoked it, which is once when
\* the first attempt of the first call succeeded
C4_SecondCallIsCached ==
  \A c, d \in CallIds :
    ( SecondWithinTTL(d, c) /\ ReturnedFromProvider(d) ) =>
      /\ calls[c].pc = "done"
      /\ calls[c].response = [calls[d].response EXCEPT !.cached = TRUE]
      /\ calls[c].thrown = NoError
      /\ calls[c].invoked = 0
      /\ calls[d].response.attempt = 1 => calls[c].invoked + calls[d].invoked = 1

\* C4 witness: the second call, begun one tick after the first returned the
\* provider's response of its first attempt, returned it with cached=true
C4_Witness ==
  /\ SecondWithinTTL(1, 2)
  /\ ReturnedFromProvider(1)
  /\ calls[1].invoked = 1
  /\ calls[2].pc = "done"
  /\ calls[2].response.cached
  /\ calls[2].endedAt = calls[1].endedAt + CacheTick
  /\ calls[2].invoked = 0

\* C4 as stated: the second of two such calls made within the TTL of the first
\* returns cached=true, and the provider is invoked at most once over both calls
C4_Original ==
  \A c, d \in CallIds :
    ( SecondWithinTTL(d, c) /\ calls[c].pc = "done" ) =>
      /\ calls[c].response.cached
      /\ calls[c].invoked + calls[d].invoked <= 1


(***************************************************************************)
(* ContextBuilderService.truncateToFit, with getContextLimit and the        *)
(* countTokens of the adapters that estimate 4 characters per token         *)
(***************************************************************************)
MODEL_CONTEXT_LIMITS ==
  [ m \in { "gpt-4o", "gpt-4o-mini", "gpt-4-turbo", "gpt-3.5-turbo",
            "claude-3-5-sonnet-20241022", "claude-3-5-haiku-20241022",
            "claude-3-opus-20240229", "gemini-1.5-pro", "gemini-1.5-flash",
            "gemini-1.5-flash-8b", "gemini-2.0-flash-exp" } |->
      CASE m \in {"gpt-4o", "gpt-4o-mini", "gpt-4-turbo"} -> 128000
        [] m = "gpt-3.5-turbo" -> 16385
        [] m \in { "claude-3-5-sonnet-20241022", "claude-3-5-haiku-20241022",
                   "claude-3-opus-20240229" } -> 200000
        [] m = "gemini-1.5-pro" -> 2000000
        [] OTHER -> 1000000 ]

DefaultContextLimit == 16000
getContextLimit(model) ==
  IF model \in DOMAIN MODEL_CONTEXT_LIMITS THEN MODEL_CONTEXT_LIMITS[model]
                                           ELSE DefaultContextLimit

DefaultReserveOutputTokens == 4096

\* countTokens: Math.ceil(text.length / 4)
countTokens(text) == (Len(text) + 3) \div 4

\* Array.prototype.join
RECURSIVE Join(_, _)
Join(strings, separator) ==
  IF Len(strings) = 0 THEN ""
  ELSE IF Len(strings) = 1 THEN strings[1]
  ELSE strings[1] \o separator \o Join(Tail(strings), separator)

\* ContextBuilderService.estimateTokens
estimateTokens(messages) ==
  countTokens(Join([i \in 1..Len(messages) |-> messages[i].content], "\n"))

\* what an array yields at an index it does not have
UndefinedMessage == [role |-> Undefined, content |-> Undefined]
At(array, i) == IF i \in 1..Len(array) THEN array[i] ELSE UndefinedMessage

\* the for loop with `continue` for `break`: a message that does not fit is
\* skipped and the scan goes on
RECURSIVE AddFromEnd_Skips(_, _, _, _, _, _)
AddFromEnd_Skips(systemMessage, kept, middleMessages, lastMessage, maxInputTokens, i) ==
  IF i < 1 THEN kept
  ELSE LET testMessages == <<systemMessage>> \o kept \o <<middleMessages[i], lastMessage>> IN
       IF estimateTokens(testMessages) <= maxInputTokens
         THEN AddFromEnd_Skips(systemMessage, <<middleMessages[i]>> \o kept, middleMessages,
                               lastMessage, maxInputTokens, i - 1)
         ELSE AddFromEnd_Skips(systemMessage, kept, middleMessages,
                               lastMessage, maxInputTokens, i - 1)

\* the for loop of truncateToFit from index i down: kept is truncated.slice(1);
\* the result is truncated.slice(1) when the loop ends
RECURSIVE AddFromEnd(_, _, _, _, _, _)
AddFromEnd(systemMessage, kept, middleMessages, lastMessage, maxInputTokens, i) ==
  IF i < 1 THEN kept
  ELSE LET testMessages == <<systemMessage>> \o kept \o <<middleMessages[i], lastMessage>> IN
       IF estimateTokens(testMessages) <= maxInputTokens
         THEN AddFromEnd(systemMessage, <<middleMessages[i]>> \o kept, middleMessages,
                         lastMessage, maxInputTokens, i - 1)
         ELSE kept

\* truncateToFit without its final truncated.push(lastMessage)
truncateToFit_NoPush(messages, model, reserveOutputTokens) ==
  LET maxInputTokens == getContextLimit(model) - reserveOutputTokens
      rest == SubSeq(messages, 2, Len(messages))
      middleMessages == SubSeq(rest, 1, Len(rest) - 1)
  IN
  IF estimateTokens(messages) <= maxInputTokens
    THEN messages
    ELSE <<At(messages, 1)>>
         \o AddFromEnd(At(messages, 1), <<>>, middleMessages, At(rest, Len(rest)),
                       maxInputTokens, Len(middleMessages))

\* the list truncateToFit returns when a provider is there to count tokens
truncateToFit(messages, model, reserveOutputTokens) ==
  LET contextLimit == getContextLimit(model)
      maxInputTokens == contextLimit - reserveOutputTokens
      currentTokens == estimateTokens(messages)
      systemMessage == At(messages, 1)
      rest == SubSeq(messages, 2, Len(messages))
      lastMessage == At(rest, Len(rest))
      middleMessages == SubSeq(rest, 1, Len(rest) - 1)
  IN
  IF currentTokens <= maxInputTokens
    THEN messages
    ELSE <<systemMessage>>
         \o AddFromEnd(systemMessage, <<>>, middleMessages, lastMessage, maxInputTokens,
                       Len(middleMessages))
         \o <<lastMessage>>


(***************************************************************************)
(* SpecTruncate: one truncateToFit call on a list of 1..MaxMessages         *)
(* messages, with budgets around the sizes of these lists                   *)
(***************************************************************************)
MaxMessages == 5
MaxBudget == 8
Contents == {"a", "bcd", "efghijklmnopq"}
FitModels == {"gpt-3.5-turbo", "gemini-1.5-pro", "some-unlisted-model"}

\* the list with these contents: a system message first, then the turns of
\* the conversation, the newest a user message
MessagesOf(contents) ==
  [ i \in 1..Len(contents) |->
      [ role |-> IF i = 1 THEN "system"
                 ELSE IF (Len(contents) - i) % 2 = 0 THEN "user" ELSE "assistant",
        content |-> contents[i] ] ]

FitInputs ==
  UNION { {MessagesOf(cs) : cs \in [1..n -> Contents]} : n \in 1..MaxMessages }

\* the reserve left out (the default), or one that leaves a budget of -1..MaxBudget
FitReserves(model) ==
  {DefaultReserveOutputTokens} \cup {getContextLimit(model) - b : b \in (-1)..MaxBudget}

\* the registries of SpecTruncate: none, or the Gemini adapter, whose countTokens
\* AIService.countTokens then uses
FitRegistries == { {}, {"gemini"} }

InitTruncate ==
  /\ \E reg \in FitRegistries : ServiceAfterInit(reg)
  /\ \E m \in FitInputs, model \in FitModels :
       \E r \in FitReserves(model) :
         fit = [ messages |-> m, model |-> model, reserveOutputTokens |-> r,
                 result |-> <<>>, returned |-> FALSE, thrown |-> "" ]
  /\ cost = NoCost

\* truncateToFit: its first estimateTokens goes through AIService.countTokens,
\* whose getProvider() throws when no adapter is registered
TruncateToFit ==
  /\ ~fit.returned
  /\ fit.thrown = ""
  /\ fit' = IF getProvider(registered, defaultProvider, Undefined) = "throw"
              THEN [fit EXCEPT !.thrown = NoProviderError.kind]
              ELSE [fit EXCEPT !.result = truncateToFit(fit.messages, fit.model,
                                                        fit.reserveOutputTokens),
                               !.returned = TRUE]
  /\ UNCHANGED <<breakerVars, registered, defaultProvider, calls, cache, cost, admission>>

NextTruncate == TruncateToFit

SpecTruncate == InitTruncate /\ [][NextTruncate]_vars


(***************************************************************************)
(* Properties of truncateToFit                                              *)
(***************************************************************************)
Budget == getContextLimit(fit.model) - fit.reserveOutputTokens
First(q) == q[1]
Last(q) == q[Len(q)]
Interior(q) == SubSeq(q, 2, Len(q) - 1)

\* the system message and the final message of the input alone
SystemAndFinal ==
  IF Len(fit.messages) = 1 THEN fit.messages
                           ELSE <<First(fit.messages), Last(fit.messages)>>

\* the newest k interior messages of the input
Newest(k) ==
  SubSeq(Interior(fit.messages), Len(Interior(fit.messages)) - k + 1,
         Len(Interior(fit.messages)))

\* the system message, the newest k interior messages and the final message
\* are within the budget
RunFits(k) ==
  estimateTokens(<<First(fit.messages)>> \o Newest(k) \o <<Last(fit.messages)>>) <= Budget

\* the length of the longest run of the newest interior messages that fits
LongestRun ==
  IF \E k \in 0..Len(Interior(fit.messages)) : RunFits(k)
    THEN CHOOSE k \in 0..Len(Interior(fit.messages)) :
           /\ RunFits(k)
           /\ \A j \in 0..Len(Interior(fit.messages)) : RunFits(j) => j <= k
    ELSE 0

\* C8 as stated: truncateToFit always returns a list whose first element is the
\* input's first message and whose last element is the input's last message,
\* and whose estimate is within contextLimit(model) - reserveOutputTokens
\* whenever the system message and the final message together are
C8_Original ==
  fit.returned =>
    /\ First(fit.result) = First(fit.messages)
    /\ Last(fit.result) = Last(fit.messages)
    /\ estimateTokens(SystemAndFinal) <= Budget => estimateTokens(fit.result) <= Budget

\* C8 on lists of two or more messages, where it holds
C8_TwoOrMore == Len(fit.messages) >= 2 => C8_Original

C10_Original ==
  ( fit.returned /\ estimateTokens(SystemAndFinal) > Budget ) =>
    fit.result = <<First(fit.messages), Last(fit.messages)>>

\* C10 on lists of two or more messages, where it holds
C10_TwoOrMore == Len(fit.messages) >= 2 => C10_Original

\* a list of one message over the budget comes back as that message followed
\* by undefined
SingleOverBudget ==
  /\ fit.returned
  /\ Len(fit.messages) = 1
  /\ estimateTokens(fit.messages) > Budget
  /\ fit.result = <<First(fit.messages), UndefinedMessage>>

\* Join puts one separator character between two strings
JoinLength == Len(Join(<<"a", "bcd">>, "\n")) = 5


ProviderRegistries == SUBSET SeqRange(RegistrationOrder)
ProviderOptions ==
  LET base == { [useCache |-> FALSE, maxRetries |-> r] : r \in {1, ServiceFailureThreshold} }
  IN base \cup
     { [useCache |-> o.useCache, maxRetries |-> o.maxRetries, provider |-> p] :
         o \in base, p \in AIProviderEnum }
ProviderOutcomes == {Ok, 500}

InitProvider == \E reg \in ProviderRegistries : InitService(reg)

\* stream() is called when every earlier call has returned or thrown
StreamStartAfter(c, req, opts) ==
  /\ \A d \in CallIds : d < c => calls[d].pc = "done"
  /\ StreamStart(c, req, opts)

NextProvider ==
  \/ \E c \in CallIds, opts \in ProviderOptions : StartAfter(c, Request(Messages1, FALSE), opts)
  \/ \E c \in CallIds, opts \in ProviderOptions :
       StreamStartAfter(c, Request(Messages1, TRUE), opts)
  \/ \E c \in CallIds, outcome \in ProviderOutcomes : ProviderSettles(c, outcome, FALSE)
  \/ \E c \in CallIds, outcome \in ProviderOutcomes : StreamSettles(c, outcome, FALSE, FALSE)
  \/ \E c \in CallIds : Wake(c)
  \/ \E c \in CallIds : AdvanceToTimer(c)

SpecProvider == InitProvider /\ [][NextProvider]_vars


(***************************************************************************)
(* Properties of provider resolution                                        *)
(***************************************************************************)
\* the provider a call asked for, Undefined when it named none
Requested(c) == Opt(calls[c].options, "provider", Undefined)

\* the registered adapter that comes first in Gemini > OpenAI > Anthropic
HighestPriority(reg) == FirstIn(PriorityOrder, reg, "throw")

\* C12 as stated: getProvider(preferred) returns the preferred adapter when it
\* is registered; otherwise the registered adapter of highest priority in the
\* order Gemini > OpenAI > Anthropic, which is also what a call without a
\* preference resolves to; with no adapter registered it raises an error and
\* complete() and stream() invoke no provider
C12_Original ==
  \A c \in CallIds :
    calls[c].pc # "idle" =>
      IF registered = {}
        THEN /\ calls[c].pc = "done"
             /\ calls[c].thrown = NoProviderError
             /\ calls[c].invoked = 0
      ELSE IF Requested(c) \in registered
        THEN calls[c].adapter = Requested(c)
      ELSE Requested(c) # Undefined =>
             /\ calls[c].adapter = HighestPriority(registered)
             /\ calls[c].adapter = getProvider(registered, defaultProvider, Undefined)

\* what the code does where C12 fails: a preferred provider that is not
\* registered resolves to the adapter registered first (OpenAI, then
\* Anthropic, then Gemini); a call without a preference gets the default
C12_FallbackAsCoded ==
  \A c \in CallIds :
    ( calls[c].pc # "idle" /\ registered # {} ) =>
      calls[c].adapter =
        IF Requested(c) \in registered THEN Requested(c)
        ELSE IF Requested(c) = Undefined THEN defaultProvider
        ELSE FirstIn(RegistrationOrder, registered, "throw")


(***************************************************************************)
(* SpecService: two complete() or stream() calls that may overlap, with or  *)
(* without the streaming flag, a projectId and a maxRetries option, on a    *)
(* registry with the OpenAI adapter or with none                            *)
(***************************************************************************)
ServiceRegistries == { {}, {"openai"} }
ServiceOptions ==
  { [operation |-> "plan"],
    [projectId |-> "p1"],
    [projectId |-> "p1", maxRetries |-> 2],
    [maxRetries |-> 0] }
ServiceRequests == { Request(Messages1, st) : st \in BOOLEAN }
ServiceOutcomes == {Ok, 401, 500}

InitServiceCalls == \E reg \in ServiceRegistries : InitService(reg)

NextService ==
  \/ \E c \in CallIds, req \in ServiceRequests, opts \in ServiceOptions : Start(c, req, opts)
  \/ \E c \in CallIds, req \in ServiceRequests, opts \in ServiceOptions :
       StreamStart(c, req, opts)
  \/ \E c \in CallIds, outcome \in ServiceOutcomes, logFails \in BOOLEAN :
       ProviderSettles(c, outcome, logFails)
  \/ \E c \in CallIds, outcome \in ServiceOutcomes, usageSeen \in BOOLEAN, logFails \in BOOLEAN :
       StreamSettles(c, outcome, usageSeen, logFails)
  \/ \E c \in CallIds : Wake(c)
  \/ \E c \in CallIds : AdvanceToTimer(c)

SpecService == InitServiceCalls /\ [][NextService]_vars


(***************************************************************************)
(* Properties of usage tracking, streaming and the outcomes of complete()   *)
(***************************************************************************)
\* in this step the provider attempt of complete() call c succeeded and the
\* recording of its usage failed
UsageRecordingFails(c) ==
  /\ calls[c].op = "complete"
  /\ calls[c].pc = "awaiting"
  /\ calls'[c].tracked = calls[c].tracked + 1
  /\ calls'[c].usageError

C13_Step ==
  \A c \in CallIds :
    UsageRecordingFails(c) =>
      LET n == calls[c].breaker
          response == [from |-> calls[c].adapter, call |-> c,
                       attempt |-> calls[c].attempt, cached |-> FALSE]
      IN
      /\ calls'[c].pc = "done"
      /\ calls'[c].response = response
      /\ calls'[c].thrown = NoError
      /\ calls'[c].invoked = calls[c].invoked
      /\ calls'[c].sleeps = calls[c].sleeps
      /\ breakers'[n].failureCount = 0
      /\ run'[n] = 0
      /\ breakers[n].state = "HALF_OPEN" =>
           \/ breakers'[n].successCount = breakers[n].successCount + 1
           \/ breakers'[n].state = "CLOSED"
      /\ ( calls[c].useCache /\ ~calls[c].request.stream ) =>
           cache'[getCacheKey(calls[c].request)] = [response |-> response, timestamp |-> now]

\* C13: a failure while recording the usage of a successful attempt leaves the
\* outcome of the complete() call alone: the call returns the provider's
\* response in that step, with no further invocation and no sleep, the
\* breaker has recorded the attempt as a success, the response is in the
\* cache, and the finished call does nothing more
C13_UsageFailureIsSwallowed == [][C13_Step /\ DoneIsFinal]_vars

\* C13 witness: a call that needed two attempts returned the response of the
\* second although the recording of its usage failed, and the cache holds it
C13_Witness ==
  \E c \in CallIds :
    /\ calls[c].pc = "done"
    /\ calls[c].op = "complete"
    /\ calls[c].usageError
    /\ calls[c].tracked = 1
    /\ calls[c].invoked = 2
    /\ calls[c].response = [from |-> "openai", call |-> c, attempt |-> 2, cached |-> FALSE]
    /\ cache[getCacheKey(calls[c].request)].response = calls[c].response


\* call c is a stream() call or a complete() call whose request has the
\* streaming flag set
Streaming(c) == calls[c].op = "stream" \/ calls[c].request.stream

C14_State ==
  \A c \in CallIds :
    ( calls[c].pc = "done" /\ Streaming(c) /\ calls[c].response # NoResponse ) =>
      /\ ~calls[c].response.cached
      /\ calls[c].response.call = c
      /\ calls[c].invoked >= 1

C14_Step ==
  \A c \in CallIds :
    ( calls'[c] # calls[c] /\ (calls'[c].op = "stream" \/ calls'[c].request.stream) ) =>
      cache' = cache

\* C14: a complete() call whose request has the streaming flag set, and every
\* stream() call, leaves the response cache as it was in each of its steps, and
\* its result comes from the provider and never carries cached=true, also when
\* the cache holds a fresh entry for the same key
C14_StreamingBypassesCache == []C14_State /\ [][C14_Step]_vars

\* C14 witness: while the cache held the fresh response of an earlier call for
\* the same key, a complete() call with the streaming flag and the cache enabled
\* invoked the provider and returned its response, and the entry is still the
\* earlier call's
C14_Witness ==
  \E c, d \in CallIds :
    /\ d \in calls[c].after
    /\ calls[c].pc = "done"
    /\ calls[c].op = "complete"
    /\ calls[c].request.stream
    /\ calls[c].useCache
    /\ getCacheKey(calls[c].request) = getCacheKey(calls[d].request)
    /\ cache[getCacheKey(calls[c].request)].response = calls[d].response
    /\ calls[d].response.call = d
    /\ calls[c].response = [from |-> "openai", call |-> c, attempt |-> 1, cached |-> FALSE]
    /\ calls[c].invoked = 1


\* complete() call c has ended
Completed(c) == calls[c].op = "complete" /\ calls[c].pc = "done"

\* call c ended by raising one of: the provider's non-retryable error; the
\* transient provider error of the attempt numbered maxRetries;
\* CircuitBreakerOpenError; the no-provider-available error
RaisedListedError(c) ==
  \/ EndedNonRetryable(c)
  \/ /\ calls[c].thrown.kind = "provider"
     /\ calls[c].thrown.status \notin {400, 401, 403, 404}
     /\ calls[c].thrown.attempt = calls[c].maxRetries
     /\ calls[c].invoked = calls[c].maxRetries
  \/ calls[c].thrown.kind = "CircuitBreakerOpenError"
  \/ calls[c].thrown = NoProviderError

\* call c ended by raising Error('AI completion failed after retries')
RaisedAfterRetries(c) ==
  /\ calls[c].thrown = AfterRetriesError
  /\ calls[c].maxRetries < 1
  /\ calls[c].invoked = 0

\* C15 as stated: for every value of maxRetries a complete() call ends either by
\* returning a response or by raising one of the four listed error kinds
C15_Original ==
  \A c \in CallIds :
    Completed(c) =>
      \/ calls[c].response # NoResponse /\ calls[c].thrown = NoError
      \/ calls[c].response = NoResponse /\ RaisedListedError(c)

\* C15 (as amended): a complete() call ends either by returning a response
\* (possibly cached=true) and no error, or by raising, with no response, the
\* provider's non-retryable error, the last transient provider error after
\* maxRetries attempts, CircuitBreakerOpenError, the no-provider-available
\* error, or, when maxRetries is below 1 and the cache did not answer,
\* Error('AI completion failed after retries') without any provider invocation
C15_OutcomesOfComplete ==
  \A c \in CallIds :
    Completed(c) =>
      \/ calls[c].response # NoResponse /\ calls[c].thrown = NoError
      \/ calls[c].response = NoResponse /\ RaisedListedError(c)
      \/ calls[c].response = NoResponse /\ RaisedAfterRetries(c)

\* C15 witness: one call with maxRetries = 0 raised the after-retries error
\* without invoking the provider, another raised the transient error of its
\* third and last attempt
C15_Witness ==
  \E c, d \in CallIds :
    /\ Completed(c)
    /\ calls[c].options = [maxRetries |-> 0]
    /\ RaisedAfterRetries(c)
    /\ Completed(d)
    /\ calls[d].thrown = ProviderError(500, 3)
    /\ calls[d].invoked = 3


(***************************************************************************)
(* Properties of reset() and of outcomes that arrive late                   *)
(***************************************************************************)
\* the event e is a reset of breaker n, by reset(n) or by resetAll()
IsResetOf(e, n) == (e.op = "reset" /\ e.name = n) \/ e.op = "resetAll"

C16_Step ==
  \A n \in BreakerNames :
    /\ ( Exists(n) /\ IsResetOf(ev', n) ) =>
         /\ breakers'[n].state = "CLOSED"
         /\ breakers'[n].failureCount = 0
         /\ breakers'[n].successCount = 0
         /\ breakers'[n].nextRetryTime = breakers[n].nextRetryTime
         /\ breakers'[n].options = breakers[n].options
    /\ ( Exists(n) /\ IsResetOf(ev, n) /\ IsExecuteStep(n) ) =>
         /\ ev'.result = "invoked"
         /\ inflight'[n] = inflight[n] + 1
         /\ breakers'[n].state = "CLOSED"

\* C16: reset(), called on a breaker in any state, leaves it CLOSED with
\* failureCount = 0 and successCount = 0, and the execute() that follows it
\* invokes its operation, also when nextRetryTime is still in the future
C16_ResetForcesClosed == [][C16_Step]_vars

\* C16 witness: a breaker that reset() closed while it was OPEN, its retry
\* time not yet reached, has invoked the operation of the next execute()
C16_Witness ==
  \E n \in BreakerNames :
    /\ Exists(n)
    /\ breakers[n].state = "CLOSED"
    /\ now < breakers[n].nextRetryTime
    /\ inflight[n] = 1
    /\ ev = [op |-> "execute", name |-> n, result |-> "invoked"]


(***************************************************************************)
(* calculateCost (ai.types.ts).  Its operands are JavaScript numbers, that  *)
(* is IEEE-754 doubles: every /, * and + yields the double nearest to the   *)
(* exact result, ties to the even mantissa.  A double is modelled exactly,  *)
(* as mantissa * 2^exponent with a 53-bit mantissa; mantissas and the exact *)
(* intermediate results are natural numbers of any size, kept as            *)
(* little-endian sequences of 15-bit limbs.                                 *)
(***************************************************************************)
Limb == 2^15

RECURSIVE Trim(_)
Trim(a) == IF a = <<>> THEN <<>>
           ELSE IF a[Len(a)] = 0 THEN Trim(SubSeq(a, 1, Len(a) - 1)) ELSE a

RECURSIVE Big(_)
\* the natural number n as limbs
Big(n) == IF n = 0 THEN <<>> ELSE <<n % Limb>> \o Big(n \div Limb)

RECURSIVE Small(_)
\* the value of limbs a as a number
Small(a) == IF a = <<>> THEN 0 ELSE Head(a) + Limb * Small(Tail(a))

LimbAt(a, i) == IF i <= Len(a) THEN a[i] ELSE 0

RECURSIVE BigAddFrom(_, _, _, _)
BigAddFrom(a, b, i, carry) ==
  IF i > Len(a) /\ i > Len(b)
    THEN IF carry = 0 THEN <<>> ELSE <<carry>>
    ELSE LET s == LimbAt(a, i) + LimbAt(b, i) + carry
         IN  <<s % Limb>> \o BigAddFrom(a, b, i + 1, s \div Limb)

BigAdd(a, b) == BigAddFrom(a, b, 1, 0)

RECURSIVE BigSubFrom(_, _, _, _)
BigSubFrom(a, b, i, borrow) ==
  IF i > Len(a) THEN <<>>
  ELSE LET s == LimbAt(a, i) - LimbAt(b, i) - borrow
       IN  IF s < 0 THEN <<s + Limb>> \o BigSubFrom(a, b, i + 1, 1)
                    ELSE <<s>> \o BigSubFrom(a, b, i + 1, 0)

\* a - b, for a >= b
BigSub(a, b) == Trim(BigSubFrom(a, b, 1, 0))

RECURSIVE BigLessFrom(_, _, _)
BigLessFrom(a, b, i) ==
  IF i = 0 THEN FALSE
  ELSE IF a[i] # b[i] THEN a[i] < b[i] ELSE BigLessFrom(a, b, i - 1)

\* a < b
BigLess(a, b) ==
  IF Len(a) # Len(b) THEN Len(a) < Len(b) ELSE BigLessFrom(a, b, Len(a))

RECURSIVE BigTimesSmallFrom(_, _, _, _)
BigTimesSmallFrom(a, k, i, carry) ==
  IF i > Len(a)
    THEN IF carry = 0 THEN <<>> ELSE <<carry>>
    ELSE LET s == a[i] * k + carry
         IN  <<s % Limb>> \o BigTimesSmallFrom(a, k, i + 1, s \div Limb)

\* a * k, for k < Limb
BigTimesSmall(a, k) == IF k = 0 THEN <<>> ELSE BigTimesSmallFrom(a, k, 1, 0)

RECURSIVE BigTimes(_, _)
BigTimes(a, b) ==
  IF a = <<>> \/ b = <<>> THEN <<>>
  ELSE LET rest == BigTimes(a, Tail(b))
       IN  BigAdd(BigTimesSmall(a, Head(b)),
                  IF rest = <<>> THEN <<>> ELSE <<0>> \o rest)

\* a * 2^k
BigShiftLeft(a, k) ==
  IF a = <<>> THEN <<>>
  ELSE [i \in 1..(k \div 15) |-> 0] \o BigTimesSmall(a, 2^(k % 15))

RECURSIVE SmallBitLength(_)
SmallBitLength(n) == IF n = 0 THEN 0 ELSE 1 + SmallBitLength(n \div 2)

BitLength(a) ==
  IF a = <<>> THEN 0 ELSE 15 * (Len(a) - 1) + SmallBitLength(a[Len(a)])

IsOdd(a) == a # <<>> /\ a[1] % 2 = 1

RECURSIVE Digit(_, _, _, _)
\* the largest t below 2 * 2^bit with d * t <= num, found from the top bit down
Digit(num, d, bit, t) ==
  IF bit < 0 THEN t
  ELSE IF BigLess(num, BigTimesSmall(d, t + 2^bit))
         THEN Digit(num, d, bit - 1, t)
         ELSE Digit(num, d, bit - 1, t + 2^bit)

RECURSIVE LongDivision(_, _, _)
\* long division: the limbs j, j-1, ..., 1 of num \div den, and the remainder
LongDivision(num, den, j) ==
  IF j = 0 THEN [q |-> <<>>, r |-> num]
  ELSE LET d    == [i \in 1..(j - 1) |-> 0] \o den
           t    == Digit(num, d, 14, 0)
           rest == LongDivision(BigSub(num, BigTimesSmall(d, t)), den, j - 1)
       IN  [q |-> rest.q \o <<t>>, r |-> rest.r]

\* num \div den and num % den, for a quotient of at most four limbs
Quotient(num, den) ==
  LET qr == LongDivision(num, den, 4) IN [q |-> Trim(qr.q), r |-> qr.r]

MantissaBits == 53
Zero == [m |-> <<>>, e |-> 0]

\* the double nearest to num / den, ties to the even mantissa: the mantissa m
\* has MantissaBits bits and the value is m * 2^e
Float64(num, den) ==
  IF num = <<>> THEN Zero
  ELSE
    LET e0  == BitLength(num) - BitLength(den) - MantissaBits
        n0  == IF e0 < 0 THEN BigShiftLeft(num, 0 - e0) ELSE num
        d0  == IF e0 > 0 THEN BigShiftLeft(den, e0) ELSE den
        big == ~BigLess(n0, BigShiftLeft(d0, MantissaBits))
        e   == IF big THEN e0 + 1 ELSE e0
        dd  == IF big THEN BigShiftLeft(d0, 1) ELSE d0
        qr  == Quotient(n0, dd)
        twice == BigShiftLeft(qr.r, 1)
        up  == BigLess(dd, twice) \/ (twice = dd /\ IsOdd(qr.q))
        m   == IF up THEN BigAdd(qr.q, <<1>>) ELSE qr.q
    IN  IF BitLength(m) > MantissaBits
          THEN [m |-> BigShiftLeft(<<1>>, MantissaBits - 1), e |-> e + 1]
          ELSE [m |-> m, e |-> e]

Scaled(f, by) == IF f.m = <<>> THEN Zero ELSE [f EXCEPT !.e = @ + by]

\* x / y
Divide(x, y) == Scaled(Float64(x.m, y.m), x.e - y.e)

\* x * y
Times(x, y) == Scaled(Float64(BigTimes(x.m, y.m), <<1>>), x.e + y.e)

\* x + y
Plus(x, y) ==
  IF x.m = <<>> THEN y
  ELSE IF y.m = <<>> THEN x
  ELSE LET e == Min(x.e, y.e)
       IN  Scaled(Float64(BigAdd(BigShiftLeft(x.m, x.e - e),
                                 BigShiftLeft(y.m, y.e - e)), <<1>>), e)

\* Math.round(x) for x >= 0: the integer nearest to x, a half rounding up
MathRound(x) ==
  IF x.m = <<>> THEN 0
  ELSE IF x.e >= 0 THEN Small(BigShiftLeft(x.m, x.e))
  ELSE LET unit == BigShiftLeft(<<1>>, 0 - x.e)
           qr   == Quotient(x.m, unit)
       IN  Small(qr.q) + (IF BigLess(BigShiftLeft(qr.r, 1), unit) THEN 0 ELSE 1)


\* the double a number literal denotes; a literal is <<digits, scale>>, the
\* number digits * 10^-scale, such as <<250, 2>> for 2.50
Number(literal) == Float64(Big(literal[1]), Big(10^literal[2]))

\* MODEL_PRICING, cost per 1M tokens, each rate as the literal of the source
MODEL_PRICING ==
  ( "gpt-4o"                     :> [input |-> <<250, 2>>,  output |-> <<1000, 2>>] ) @@
  ( "gpt-4o-mini"                :> [input |-> <<15, 2>>,   output |-> <<60, 2>>] ) @@
  ( "gpt-4-turbo"                :> [input |-> <<1000, 2>>, output |-> <<3000, 2>>] ) @@
  ( "gpt-3.5-turbo"              :> [input |-> <<50, 2>>,   output |-> <<150, 2>>] ) @@
  ( "claude-3-5-sonnet-20241022" :> [input |-> <<300, 2>>,  output |-> <<1500, 2>>] ) @@
  ( "claude-3-5-haiku-20241022"  :> [input |-> <<80, 2>>,   output |-> <<400, 2>>] ) @@
  ( "claude-3-opus-20240229"     :> [input |-> <<1500, 2>>, output |-> <<7500, 2>>] ) @@
  ( "gemini-1.5-pro"             :> [input |-> <<125, 2>>,  output |-> <<500, 2>>] ) @@
  ( "gemini-1.5-flash"           :> [input |-> <<75, 3>>,   output |-> <<30, 2>>] ) @@
  ( "gemini-1.5-flash-8b"        :> [input |-> <<375, 4>>,  output |-> <<15, 2>>] ) @@
  ( "gemini-2.0-flash-exp"       :> [input |-> <<0, 2>>,    output |-> <<0, 2>>] )

\* the rates of a model absent from MODEL_PRICING: { input: 5.0, output: 15.0 }
DefaultPricing == [input |-> <<50, 1>>, output |-> <<150, 1>>]

\* MODEL_PRICING[model] ?? { input: 5.0, output: 15.0 }
PricingOf(model) ==
  IF model \in DOMAIN MODEL_PRICING THEN MODEL_PRICING[model] ELSE DefaultPricing

\* the literal 1_000_000
Million == Number(<<1000000, 0>>)

calculateCost(model, promptTokens, completionTokens) ==
  LET pricing    == PricingOf(model)
      inputCost  == Times(Divide(Number(<<promptTokens, 0>>), Million),
                          Number(pricing.input))
      outputCost == Times(Divide(Number(<<completionTokens, 0>>), Million),
                          Number(pricing.output))
  IN  Divide(Number(<<MathRound(Times(Plus(inputCost, outputCost), Million)), 0>>),
             Million)

MaxCostTokens == 6

\* the models of SpecCost: every model of the table and one absent from it
CostModels == DOMAIN MODEL_PRICING \cup {"gpt-4"}
PromptTokenCounts == 0..MaxCostTokens \cup {1000}
CompletionTokenCounts == 0..MaxCostTokens \cup {500}

InitCost ==
  /\ ServiceAfterInit({})
  /\ fit = NoFit
  /\ \E model \in CostModels, p \in PromptTokenCounts, c \in CompletionTokenCounts :
       cost = [ model |-> model, promptTokens |-> p, completionTokens |-> c,
                result |-> Zero, returned |-> FALSE ]

CalculateCost ==
  /\ ~cost.returned
  /\ cost' = [cost EXCEPT !.result = calculateCost(cost.model, cost.promptTokens,
                                                   cost.completionTokens),
                          !.returned = TRUE]
  /\ UNCHANGED <<breakerVars, registered, defaultProvider, calls, cache, fit, admission>>

NextCost == CalculateCost

SpecCost == InitCost /\ [][NextCost]_vars

\* a rate in ten-thousandths of a dollar per million tokens
TenThousandths(literal) == literal[1] * 10^(4 - literal[2])

\* p * inputRate + c * outputRate, in ten-thousandths of a millionth of a dollar
ExactCost(inputRate, outputRate, p, c) ==
  p * TenThousandths(inputRate) + c * TenThousandths(outputRate)

\* the amount v, in ten-thousandths of a millionth of a dollar, rounded to
\* millionths, a half rounding up as Math.round does
RoundedToMillionths(v) == (v + 5000) \div 10000

IsTie(v) == v % 10000 = 5000

\* the same, a half rounding to the even millionth
RoundedHalfToEven(v) ==
  IF IsTie(v) /\ (v \div 10000) % 2 = 0 THEN v \div 10000
                                         ELSE RoundedToMillionths(v)

\* the number with six decimals n * 10^-6
SixDecimals(n) == Number(<<n, 6>>)

\* C17: calculateCost(model, p, c) equals (p * inputRate + c * outputRate) /
\* 1,000,000 rounded to 6 decimal places, with the rates of the model's entry
\* of the pricing table, or 5.0 / 15.0 for a model absent from it; with rates
\* 2.50 / 10.00, p = 1000 and c = 500 the result is 0.0075.  Either convention
\* for rounding a half is accepted
C17_Original ==
  cost.returned =>
    LET rates == IF cost.model \in DOMAIN MODEL_PRICING
                   THEN MODEL_PRICING[cost.model]
                   ELSE [input |-> <<50, 1>>, output |-> <<150, 1>>]
        exact == ExactCost(rates.input, rates.output,
                           cost.promptTokens, cost.completionTokens)
    IN  /\ cost.result \in { SixDecimals(RoundedToMillionths(exact)),
                             SixDecimals(RoundedHalfToEven(exact)) }
        /\ ( rates = [input |-> <<250, 2>>, output |-> <<1000, 2>>]
             /\ cost.promptTokens = 1000 /\ cost.completionTokens = 500 ) =>
               cost.result = Number(<<75, 4>>)

\* what holds of calculateCost: the result is a number with six decimals nearest
\* to the exact amount, and the one the claim names unless the exact amount
\* lies halfway between two of them
C17_NearestMillionth ==
  cost.returned =>
    LET rates == IF cost.model \in DOMAIN MODEL_PRICING
                   THEN MODEL_PRICING[cost.model]
                   ELSE [input |-> <<50, 1>>, output |-> <<150, 1>>]
        exact == ExactCost(rates.input, rates.output,
                           cost.promptTokens, cost.completionTokens)
    IN  IF IsTie(exact)
          THEN cost.result \in { SixDecimals(exact \div 10000),
                                 SixDecimals(exact \div 10000 + 1) }
          ELSE cost.result = SixDecimals(RoundedToMillionths(exact))


(***************************************************************************)
(* Properties of the breaker complete() uses                                *)
(***************************************************************************)
\* the breaker named after the provider call c asked for, or after the default
\* provider when it named none
RequestedBreaker(cr) ==
  BreakerName(IF Opt(cr.options, "provider", Undefined) = Undefined
                THEN defaultProvider ELSE cr.options.provider)

\* the breaker named after the adapter that serves call c
AdapterBreaker(cr) == BreakerName(cr.adapter)

C18_State ==
  \A c \in CallIds :
    ( calls[c].op = "complete" /\ calls[c].breaker # "none" ) =>
      calls[c].breaker = RequestedBreaker(calls[c])

C18_Step ==
  \A c \in CallIds :
    \* the provider attempt of c fails
    /\ ( /\ calls[c].op = "complete"
         /\ calls[c].pc = "awaiting"
         /\ calls'[c].pc # "awaiting"
         /\ calls'[c].response = NoResponse ) =>
         LET n == RequestedBreaker(calls[c])
             a == AdapterBreaker(calls[c])
         IN  /\ breakers'[n].failureCount = breakers[n].failureCount + 1
             /\ a # n => breakers'[a] = breakers[a]
    \* c reaches execute(): at its start or when its backoff timer fires
    /\ ( /\ calls'[c].op = "complete"
         /\ calls[c].pc \in {"idle", "sleeping"}
         /\ calls'[c].pc \notin {"idle", "sleeping"}
         /\ calls'[c].adapter # "throw" ) =>
         LET n == RequestedBreaker(calls'[c])
             rejected == Exists(n) /\ IsRejected(breakers[n], now)
         IN  IF rejected
               THEN /\ calls'[c].pc = "done"
                    /\ calls'[c].thrown = CircuitBreakerOpenError(calls'[c].attempt)
                    /\ calls'[c].invoked = calls[c].invoked
               ELSE /\ calls'[c].pc = "awaiting"
                    /\ calls'[c].invoked = calls[c].invoked + 1
                    /\ inflight'[n] = inflight[n] + 1

\* C18: complete() selects its breaker by the requested provider name, or the
\* default provider when none is named, not by the adapter getProvider
\* resolved: the failures of a fallback adapter are counted on the breaker
\* named after the requested provider, and an OPEN breaker under the fallback
\* adapter's own name does not block the call
C18_BreakerByRequestedName == []C18_State /\ [][C18_Step]_vars

\* C18 witness: a call that named an unregistered provider was served by the
\* fallback adapter while the breaker under that adapter's name was OPEN and
\* rejecting, and its failure is counted on the breaker of the requested name
C18_Witness ==
  \E c \in CallIds :
    LET n == RequestedBreaker(calls[c])
        a == AdapterBreaker(calls[c])
    IN  /\ calls[c].op = "complete"
        /\ Requested(c) # Undefined
        /\ Requested(c) \notin registered
        /\ calls[c].adapter \in registered
        /\ n # a
        /\ Exists(a) /\ IsRejected(breakers[a], now)
        /\ calls[c].invoked = 1
        /\ calls[c].thrown = ProviderError(500, 1)
        /\ breakers[n].failureCount = 1


(***************************************************************************)
(* Properties of failed attempts and the breaker                            *)
(***************************************************************************)
\* the provider attempt of call c fails in this step, with whatever status
AttemptFails(c) ==
  /\ calls[c].op = "complete"
  /\ calls[c].pc = "awaiting"
  /\ calls'[c].pc # "awaiting"
  /\ calls'[c].response = NoResponse

\* every failed attempt is one failure on the breaker, and the failure that
\* makes ServiceFailureThreshold of them with no success in between leaves the
\* breaker OPEN
FailuresAreCounted ==
  \A c \in CallIds :
    AttemptFails(c) =>
      LET n == calls[c].breaker
      IN  /\ breakers'[n].failureCount = breakers[n].failureCount + 1
          /\ run'[n] = breakers'[n].failureCount
          /\ run'[n] >= 5 => breakers'[n].state = "OPEN"

\* a later attempt of the retry loop of c is made in this step
RemainingAttempt(c) ==
  /\ calls[c].op = "complete"
  /\ calls[c].pc = "sleeping"
  /\ calls'[c].pc # "sleeping"

RejectedUninvoked(c) ==
  /\ calls'[c].pc = "done"
  /\ calls'[c].thrown = CircuitBreakerOpenError(calls[c].attempt + 1)
  /\ calls'[c].invoked = calls[c].invoked
  /\ inflight' = inflight

\* C19 as stated: every failed provider attempt of complete(), retryable or
\* not, is one failure on the breaker; failureThreshold failed attempts with
\* no success in between, within one call or across calls, open the breaker;
\* and a remaining attempt of a retry loop that runs after the breaker opened
\* raises CircuitBreakerOpenError without invoking the provider
C19_Original ==
  [][ /\ FailuresAreCounted
      /\ \A c \in CallIds :
           ( RemainingAttempt(c) /\ breakers[calls[c].breaker].state = "OPEN" ) =>
             RejectedUninvoked(c) ]_vars

\* C19, amended: the same, for a remaining attempt that runs after the breaker
\* opened and before its reset timeout has elapsed; one that runs at or after
\* nextRetryTime is admitted as the HALF_OPEN probe and invokes the provider
C19_FailuresOpenTheBreaker ==
  [][ /\ FailuresAreCounted
      /\ \A c \in CallIds :
           ( RemainingAttempt(c) /\ breakers[calls[c].breaker].state = "OPEN" ) =>
             IF now < breakers[calls[c].breaker].nextRetryTime
               THEN RejectedUninvoked(c)
               ELSE /\ calls'[c].pc = "awaiting"
                    /\ calls'[c].invoked = calls[c].invoked + 1
                    /\ breakers'[calls[c].breaker].state = "HALF_OPEN" ]_vars

\* C19 witness: one call failed with a non-retryable 401, the other failed four
\* times with retryable errors; the five failures opened the breaker and the
\* fifth attempt of the retry loop was rejected without reaching the provider
C19_Witness ==
  \E c, d \in CallIds :
    /\ c # d
    /\ calls[d].pc = "done"
    /\ calls[d].thrown = ProviderError(401, 1)
    /\ calls[d].invoked = 1
    /\ calls[c].pc = "done"
    /\ calls[c].thrown = CircuitBreakerOpenError(5)
    /\ calls[c].invoked = 4
    /\ breakers[calls[c].breaker].state = "OPEN"
    /\ breakers[calls[c].breaker].failureCount = 5


(***************************************************************************)
(* Properties of outcomes that arrive after the breaker changed state       *)
(***************************************************************************)
C20_Step ==
  \A n \in BreakerNames :
    LET b == breakers[n]
        after == breakers'[n]
    IN
    /\ ( Exists(n) /\ IsSuccessStep(n) /\ b.state = "HALF_OPEN" ) =>
         IF b.successCount + 1 >= b.options.successThreshold
           THEN after = [b EXCEPT !.state = "CLOSED", !.failureCount = 0,
                                  !.successCount = 0]
           ELSE after = [b EXCEPT !.failureCount = 0,
                                  !.successCount = b.successCount + 1]
    /\ ( Exists(n) /\ IsFailureStep(n) /\ b.state = "HALF_OPEN" ) =>
         after = [b EXCEPT !.state = "OPEN", !.failureCount = b.failureCount + 1,
                           !.successCount = 0, !.lastFailureTime = now,
                           !.nextRetryTime = now + b.options.resetTimeout]
    /\ ( Exists(n) /\ IsSuccessStep(n) /\ b.state = "OPEN" ) =>
         after = [b EXCEPT !.failureCount = 0]
    /\ ( Exists(n) /\ IsFailureStep(n) /\ b.state = "OPEN" ) =>
         /\ after.state = "OPEN"
         /\ after.nextRetryTime = b.nextRetryTime
         /\ after.failureCount = b.failureCount + 1
         /\ after.successCount = 0
         /\ after.options = b.options

\* C20: with several operations in flight on one breaker, each outcome is
\* applied to the state the breaker has when the outcome arrives, whatever
\* state admitted the operation: a success arriving while HALF_OPEN increments
\* successCount and closes the breaker at successThreshold, a failure arriving
\* while HALF_OPEN re-opens it, and an outcome arriving while OPEN changes
\* only the counters (a success sets failureCount to 0, a failure increments
\* it), leaving the state and nextRetryTime as they were
C20_OutcomeAppliedAtCompletion == [][C20_Step]_vars

\* C20 witness: an operation admitted while the breaker was CLOSED succeeded
\* after the breaker had opened and gone HALF_OPEN, and its success was counted
\* as the first success of the probe
C20_Witness ==
  \E n \in BreakerNames :
    /\ Exists(n)
    /\ ev = [op |-> "success", name |-> n, result |-> "returned"]
    /\ admission[n].settled = "CLOSED"
    /\ breakers[n].state = "HALF_OPEN"
    /\ breakers[n].successCount = 1
    /\ inflight[n] = 1
    /\ admission[n].closed = 0


(***************************************************************************)
(* SpecShared: three complete() calls, one after the other, that share the  *)
(* response cache and the breakers: each names a provider or none, uses the *)
(* cache or not                                                             *)
(***************************************************************************)
MaxSharedTicks == 1

SharedCallIds == CallIds \cup {3}
SharedRegistries == { {"openai"}, {"openai", "anthropic"} }
SharedOptions ==
  LET base == { [projectId |-> "p1"],
                [useCache |-> FALSE, maxRetries |-> ServiceFailureThreshold] }
  IN  base \cup { o @@ [provider |-> "anthropic"] : o \in base }
SharedOutcomes == {Ok, 500}

InitShared ==
  /\ \E reg \in SharedRegistries : ServiceAfterInitFor(reg, SharedCallIds)
  /\ fit = NoFit
  /\ cost = NoCost

NextShared ==
  \/ \E c \in SharedCallIds, opts \in SharedOptions :
       StartAfter(c, Request(Messages1, FALSE), opts)
  \/ \E c \in SharedCallIds, outcome \in SharedOutcomes : ProviderSettles(c, outcome, FALSE)
  \/ \E c \in SharedCallIds : Wake(c)
  \/ \E c \in SharedCallIds : AdvanceToTimer(c)
  \/ CleanCache
  \/ ServiceTick(CACHE_TTL_MS, MaxSharedTicks * CACHE_TTL_MS)

SpecShared == InitShared /\ [][NextShared]_vars


(***************************************************************************)
(* Properties of the cache shared by the providers                          *)
(***************************************************************************)
\* the provider call c is directed at: the one it names, or the default one
DirectedAt(c) == IF Requested(c) = Undefined THEN defaultProvider ELSE Requested(c)

\* d returned a response of its provider and stored it; c, made less than
\* CACHE_TTL_MS later with the same {messages, model, maxTokens, temperature,
\* responseFormat}, consults the cache and is directed at another provider
SameRequestOtherProvider(d, c) ==
  /\ calls[c].pc # "idle"
  /\ d \in calls[c].recent
  /\ ReturnedFromProvider(d)
  /\ Cacheable(d)
  /\ Cacheable(c)
  /\ getCacheKey(calls[d].request) = getCacheKey(calls[c].request)
  /\ DirectedAt(c) # calls[d].response.from

\* C21: the cache key does not include the provider: after a response produced
\* by provider A is cached, an identical request directed at a different
\* provider B within the TTL is served A's response with cached=true, and B
\* is not invoked
C21_CacheIgnoresProvider ==
  \A c \in SharedCallIds, d \in CallIds :
    SameRequestOtherProvider(d, c) =>
      /\ calls[c].pc = "done"
      /\ calls[c].thrown = NoError
      /\ calls[c].invoked = 0
      /\ calls[c].response.cached
      /\ calls[c].response.from = calls[d].response.from
      /\ calls[c].response.call = d
      /\ calls[c].response.attempt = calls[d].response.attempt

\* C21 witness: a call directed at the registered Anthropic adapter was served
\* the response the OpenAI adapter had produced for an earlier call
C21_Witness ==
  \E c \in SharedCallIds, d \in CallIds :
    /\ SameRequestOtherProvider(d, c)
    /\ Requested(c) = "anthropic"
    /\ calls[c].adapter = "anthropic"
    /\ calls[d].adapter = "openai"
    /\ calls[c].response.from = "openai"
    /\ calls[c].response.cached
    /\ calls[c].invoked = 0

(***************************************************************************)
(* Concurrent calls of complete() with one cache key                        *)
(***************************************************************************)
\* c and d are two calls of complete() that consult the cache under one key,
\* each begun before the other had ended, hence before the other had stored
BothBeforeEitherStored(c, d) ==
  /\ c # d
  /\ calls[c].pc # "idle" /\ calls[d].pc # "idle"
  /\ calls[c].op = "complete" /\ calls[d].op = "complete"
  /\ calls[c].adapter # "throw" /\ calls[d].adapter # "throw"
  /\ Cacheable(c) /\ Cacheable(d)
  /\ getCacheKey(calls[c].request) = getCacheKey(calls[d].request)
  /\ d \notin calls[c].after
  /\ c \notin calls[d].after

\* neither of two such calls was served from the cache: a response either of
\* them has is one its own provider invocation produced
C22_State ==
  \A c \in CallIds, d \in CallIds :
    BothBeforeEitherStored(c, d) =>
      /\ calls[c].invoked >= IF calls[c].maxRetries >= 1 THEN 1 ELSE 0
      /\ calls[c].response # NoResponse =>
            /\ ~calls[c].response.cached
            /\ calls[c].response.call = c
            /\ calls[c].invoked >= 1

\* in this step call c of such a pair returns
ReturnsInPair(c, d) ==
  /\ BothBeforeEitherStored(c, d)'
  /\ calls[c].pc # "done"
  /\ calls'[c].pc = "done"
  /\ calls'[c].response # NoResponse

\* the call that returns stores its response under the key at the current
\* time, whatever the other call had stored there
C22_Step ==
  \A c \in CallIds, d \in CallIds :
    ReturnsInPair(c, d) =>
      cache'[getCacheKey(calls[c].request)] =
        [response |-> [from |-> calls[c].adapter, call |-> c,
                       attempt |-> calls[c].attempt, cached |-> FALSE],
         timestamp |-> now]

\* C22: two concurrent complete() calls with the same cache key that both
\* start before either has stored a response both miss the cache and both
\* invoke the provider; each stores its response, the later store
\* overwriting the earlier, and neither result carries cached=true
C22_ConcurrentCallsBothMiss == []C22_State /\ [][C22_Step]_vars

\* C22 witness: both calls of such a pair have returned after one provider
\* invocation each, neither marked cached, and the entry of their key holds
\* the response of call 1, which returned after call 2 had stored its own
C22_Witness ==
  /\ BothBeforeEitherStored(1, 2)
  /\ ReturnedFromProvider(1) /\ ReturnedFromProvider(2)
  /\ calls[1].invoked = 1 /\ calls[2].invoked = 1
  /\ calls[2].attempt = 1 /\ calls[1].attempt = 1
  /\ calls[1].response.call = 1 /\ calls[2].response.call = 2
  /\ cache[getCacheKey(calls[1].request)].response = calls[1].response

(***************************************************************************)
(* Failures between successes, and the invariants of the counters           *)
(***************************************************************************)
\* a success recorded while CLOSED zeroes failureCount and leaves the breaker
\* CLOSED; the breaker leaves CLOSED only for OPEN, only in a step that records
\* a failure, and only when that failure completes a row of failureThreshold
\* failures with no success between them
C23_Step ==
  \A n \in BreakerNames :
    Exists(n) /\ breakers[n].state = "CLOSED" =>
      /\ IsSuccessStep(n) =>
            /\ breakers'[n].failureCount = 0
            /\ breakers'[n].state = "CLOSED"
      /\ breakers'[n].state # "CLOSED" =>
            /\ breakers'[n].state = "OPEN"
            /\ IsFailureStep(n)
            /\ run'[n] >= breakers[n].options.failureThreshold

\* C23: in CLOSED a successful execute() sets failureCount to 0, so the breaker
\* opens only when failureThreshold failures are recorded with no success
\* between them: a breaker whose failures come in rows shorter than
\* failureThreshold between successes stays CLOSED
C23_SuccessResetsFailures ==
  /\ [](\A n \in BreakerNames :
          Exists(n) /\ breakers[n].state = "CLOSED" => breakers[n].failureCount <= run[n])
  /\ [][C23_Step]_vars

\* C23 witness: a breaker with failureThreshold 2 that has recorded a failure and
\* has never opened has just recorded a success, and is CLOSED with
\* failureCount 0
C23_Witness ==
  \E n \in BreakerNames :
    /\ Exists(n)
    /\ breakers[n].options.failureThreshold = 2
    /\ breakers[n].lastFailureTime > 0
    /\ breakers[n].nextRetryTime = 0
    /\ ev.op = "success" /\ ev.name = n
    /\ breakers[n].state = "CLOSED"
    /\ breakers[n].failureCount = 0

\* C24: in every reachable state of a breaker with failureThreshold >= 1 and
\* successThreshold >= 1, under any interleaving of execute() outcomes and
\* reset(): state = CLOSED implies failureCount < failureThreshold; state #
\* HALF_OPEN implies successCount = 0; and successCount < successThreshold
C24_CounterInvariants ==
  \A n \in BreakerNames :
    ( /\ Exists(n)
      /\ breakers[n].options.failureThreshold >= 1
      /\ breakers[n].options.successThreshold >= 1 ) =>
      /\ breakers[n].state = "CLOSED" =>
            breakers[n].failureCount < breakers[n].options.failureThreshold
      /\ breakers[n].state # "HALF_OPEN" => breakers[n].successCount = 0
      /\ breakers[n].successCount < breakers[n].options.successThreshold

\* C24 witness: a HALF_OPEN breaker with successThreshold 2 has just recorded
\* its first success while another operation is still in flight
C24_Witness ==
  \E n \in BreakerNames :
    /\ Exists(n)
    /\ breakers[n].options.successThreshold = 2
    /\ breakers[n].state = "HALF_OPEN"
    /\ breakers[n].successCount = 1
    /\ ev.op = "success" /\ ev.name = n
    /\ inflight[n] > 0

(***************************************************************************)
(* The lookup, the TTL and the sweep                                        *)
(***************************************************************************)
\* in this step complete() call c begins, resolves an adapter and consults the
\* cache
LooksUp(c) ==
  /\ calls[c].pc = "idle"
  /\ calls'[c].pc # "idle"
  /\ calls'[c].op = "complete"
  /\ calls'[c].adapter # "throw"
  /\ calls'[c].useCache /\ ~calls'[c].request.stream

\* the entry the lookup of call c finds, and whether it is fresh
EntryFound(c) == cache[getCacheKey(calls'[c].request)]
Fresh(c) == EntryFound(c) # NoEntry /\ now - EntryFound(c).timestamp < CACHE_TTL_MS

\* in this step complete() call c returns a response marked cached
ServedFromCache(c) ==
  /\ calls'[c].pc = "done"
  /\ calls'[c].response # NoResponse
  /\ calls'[c].response.cached

C25_Step ==
  \A c \in CallIds :
    /\ LooksUp(c) =>
          /\ ServedFromCache(c) <=> Fresh(c)
          /\ Fresh(c) =>
                /\ calls'[c].response.from = EntryFound(c).response.from
                /\ calls'[c].response.call = EntryFound(c).response.call
                /\ calls'[c].response.attempt = EntryFound(c).response.attempt
                /\ calls'[c].thrown = NoError
                /\ calls'[c].invoked = 0
          /\ ( ~Fresh(c) /\ calls'[c].maxRetries >= 1 ) =>
                /\ calls'[c].pc = "awaiting"
                /\ calls'[c].invoked = 1
    /\ ( /\ calls[c].pc = "awaiting"
         /\ Cacheable(c)
         /\ calls'[c].pc = "done"
         /\ calls'[c].response # NoResponse ) =>
          cache'[getCacheKey(calls[c].request)] =
            [response |-> [from |-> calls[c].adapter, call |-> c,
                           attempt |-> calls[c].attempt, cached |-> FALSE],
             timestamp |-> now]

Expired(k) == cache[k] # NoEntry /\ now - cache[k].timestamp > CACHE_TTL_MS

\* a step in which no call of complete() moves and no time passes is a run of
\* the sweep: it removes the expired entries and leaves every other entry as
\* it is; and an entry that disappears in any step is an expired one, which a
\* lookup at that instant would not serve
C26_Step ==
  \A k \in CacheKeys :
    /\ ( calls' = calls /\ now' = now ) =>
          cache'[k] = IF Expired(k) THEN NoEntry ELSE cache[k]
    /\ ( cache[k] # NoEntry /\ cache'[k] = NoEntry ) =>
          /\ Expired(k)
          /\ ~( now - cache[k].timestamp < CACHE_TTL_MS )
          /\ calls' = calls

\* C26: each run of the periodic sweep cleanCache removes every entry whose age
\* is greater than the TTL and no other entry; it never removes an entry that
\* a lookup at the same instant would serve as a hit, and it runs
\* independently of any complete() call
C26_SweepRemovesExpiredOnly == [][C26_Step]_vars

\* C26 witness: with call 1 returned and no other call begun, the entry call 1
\* had stored is gone, more than CACHE_TTL_MS after it was stored
C26_Witness ==
  /\ ReturnedFromProvider(1)
  /\ Cacheable(1)
  /\ calls[2].pc = "idle"
  /\ now - calls[1].endedAt > CACHE_TTL_MS
  /\ cache[getCacheKey(calls[1].request)] = NoEntry

(***************************************************************************)
(* A cache hit and the breaker                                              *)
(***************************************************************************)
\* in this step call c begins, consults the cache and finds a fresh entry:
\* it returns at once with the stored response marked cached, whatever the
\* state of any breaker; no breaker, no count of operations in flight and no
\* cache entry changes, the provider is not invoked and no usage is recorded
C27_Step ==
  \A c \in SharedCallIds :
    LooksUp(c) /\ Fresh(c) =>
      /\ ServedFromCache(c)
      /\ calls'[c].thrown = NoError
      /\ calls'[c].response.call = EntryFound(c).response.call
      /\ calls'[c].invoked = 0
      /\ calls'[c].tracked = 0
      /\ breakers' = breakers
      /\ inflight' = inflight
      /\ run' = run
      /\ cache' = cache

\* C27: a cache hit in complete() returns before any breaker interaction: it
\* succeeds even when the provider's breaker is OPEN, does not invoke the
\* provider, leaves every breaker's state and counters unchanged, records no
\* usage, and does not change the cache entry or its timestamp
C27_HitBeforeBreaker == [][C27_Step]_vars

\* C27 witness: call 3, made with a projectId, was served the response call 1
\* had stored, while the breaker of its provider is OPEN and rejecting after
\* the failures of call 2; it invoked nothing and recorded no usage, and the
\* entry is still the one call 1 stored
C27_Witness ==
  /\ ReturnedFromProvider(1)
  /\ calls[1].tracked = 1
  /\ calls[2].pc = "done" /\ calls[2].thrown # NoError
  /\ calls[3].pc = "done"
  /\ calls[3].response # NoResponse
  /\ calls[3].response.cached
  /\ calls[3].response.call = 1
  /\ "projectId" \in DOMAIN calls[3].options
  /\ calls[3].invoked = 0 /\ calls[3].tracked = 0
  /\ breakers[BreakerName(calls[3].adapter)].state = "OPEN"
  /\ IsRejected(breakers[BreakerName(calls[3].adapter)], now)
  /\ breakers[BreakerName(calls[3].adapter)].failureCount = ServiceFailureThreshold
  /\ cache[getCacheKey(calls[3].request)] =
       [response |-> calls[1].response, timestamp |-> calls[1].endedAt]

(***************************************************************************)
(* stream() and the breaker                                                 *)
(***************************************************************************)
\* every stream() call that resolved an adapter started the provider's stream
\* once, never slept and has no breaker
C28_State ==
  \A c \in CallIds :
    ( calls[c].op = "stream" /\ calls[c].pc # "idle" /\ calls[c].adapter # "throw" ) =>
      /\ calls[c].invoked = 1
      /\ calls[c].sleeps = << >>
      /\ calls[c].pc \in {"streaming", "done"}

\* a step of a stream() call changes no breaker and no count of operations in
\* flight; the call starts the provider's stream in its first step whatever
\* the state of the breaker of its provider, and a step in which the stream
\* fails ends the call with the provider's error
C28_Step ==
  \A c \in CallIds :
    ( calls'[c] # calls[c] /\ calls'[c].op = "stream" ) =>
      /\ breakers' = breakers
      /\ inflight' = inflight
      /\ run' = run
      /\ ( calls[c].pc = "idle" /\ calls'[c].adapter # "throw" ) =>
            /\ calls'[c].pc = "streaming"
            /\ calls'[c].invoked = 1
      /\ calls[c].pc = "streaming" =>
            /\ calls'[c].pc = "done"
            /\ calls'[c].invoked = 1
            /\ calls'[c].response = NoResponse =>
                  /\ calls'[c].thrown.kind = "provider"
                  /\ calls'[c].thrown.attempt = 1

\* C28: AIService.stream() does not pass through the circuit breaker or the
\* retry loop: it starts the provider's stream exactly once even when the
\* breaker for that provider is OPEN, a stream failure propagates to the
\* consumer on first occurrence with no retry, and no stream outcome changes
\* any breaker's state or counters
C28_StreamBypassesBreaker == []C28_State /\ [][C28_Step]_vars

\* C28 witness: after the failures of call 1 opened the breaker of the adapter,
\* and while it rejects, stream() call 2 started the stream of that adapter
\* once and ended with the error the stream threw; the breaker still has the
\* failureCount call 1 left
C28_Witness ==
  /\ calls[1].op = "complete" /\ calls[1].pc = "done"
  /\ calls[1].invoked = ServiceFailureThreshold
  /\ calls[2].op = "stream" /\ calls[2].pc = "done"
  /\ calls[2].adapter = calls[1].adapter
  /\ calls[2].invoked = 1
  /\ calls[2].thrown.kind = "provider"
  /\ breakers[calls[1].breaker].state = "OPEN"
  /\ IsRejected(breakers[calls[1].breaker], now)
  /\ breakers[calls[1].breaker].failureCount = ServiceFailureThreshold

(***************************************************************************)
(* SpecFactory: the process-wide map of CircuitBreakerFactory, used by       *)
(* complete() calls on two providers and by direct getOrCreate calls that    *)
(* pass other options                                                        *)
(***************************************************************************)
FactoryRegistry == {"openai", "anthropic"}
FactoryNames == {BreakerName(p) : p \in FactoryRegistry}
FactoryOptions ==
  { NoOptions,
    [failureThreshold |-> MaxThreshold, successThreshold |-> 1, resetTimeout |-> HalfReset] }
FactoryCallOptions ==
  LET base == { [useCache |-> FALSE, maxRetries |-> r] : r \in {1, 2} }
  IN  base \cup { o @@ [provider |-> "anthropic"] : o \in base }
FactoryOutcomes == {Ok, 500}

InitFactory == InitService(FactoryRegistry)

NextFactory ==
  \/ \E n \in FactoryNames, o \in FactoryOptions : BGetOrCreate(n, o)
  \/ \E c \in CallIds, opts \in FactoryCallOptions :
       Start(c, Request(Messages1, FALSE), opts)
  \/ \E c \in CallIds, outcome \in FactoryOutcomes : ProviderSettles(c, outcome, FALSE)
  \/ \E c \in CallIds : Wake(c)
  \/ \E c \in CallIds : AdvanceToTimer(c)

SpecFactory == InitFactory /\ [][NextFactory]_vars

\* while a breaker is CLOSED its failureCount is the number of failures
\* recorded on its name since the last success, over all calls so far
C29_State ==
  \A n \in BreakerNames :
    Exists(n) /\ breakers[n].state = "CLOSED" => breakers[n].failureCount = run[n]

\* a breaker comes into being CLOSED with both counters 0 under its own name;
\* once it exists it exists in every later state with the options it was
\* created with; a getOrCreate for an existing name changes nothing; and a
\* step that changes one breaker leaves every other breaker as it is
C29_Step ==
  \A n \in BreakerNames :
    /\ ( ~Exists(n) /\ breakers'[n] # NoBreaker ) =>
          /\ breakers'[n].state = "CLOSED"
          /\ breakers'[n].failureCount = 0
          /\ breakers'[n].successCount = 0
          /\ breakers'[n].options.name = n
    /\ Exists(n) =>
          /\ breakers'[n] # NoBreaker
          /\ breakers'[n].options = breakers[n].options
          /\ ( ev'.op = "getOrCreate" /\ ev'.name = n ) => breakers'[n] = breakers[n]
    /\ breakers'[n] # breakers[n] =>
          \A m \in BreakerNames \ {n} : breakers'[m] = breakers[m]

\* C29: CircuitBreakerFactory.getOrCreate(name) creates a breaker on the first
\* call for a name and returns that same instance on every later call with
\* that name, so the state and counters accumulated by earlier complete()
\* calls persist into later ones and options passed on later calls do not
\* change its thresholds; breakers of different names share no state, so any
\* operation on one leaves every other breaker unchanged
C29_OneBreakerPerName == []C29_State /\ [][C29_Step]_vars

\* C29 witness: ai-openai was created with failureThreshold MaxThreshold, not
\* the 5 that complete() passes; two complete() calls through it failed once
\* each, and the second failure opened it; ai-anthropic, created with the
\* defaults, is CLOSED with failureCount 0
C29_Witness ==
  /\ Exists("ai-openai") /\ Exists("ai-anthropic")
  /\ breakers["ai-openai"].options.failureThreshold = MaxThreshold
  /\ MaxThreshold < ServiceFailureThreshold
  /\ calls[1].breaker = "ai-openai" /\ calls[2].breaker = "ai-openai"
  /\ calls[1].maxRetries = 1 /\ calls[2].maxRetries = 1
  /\ calls[1].invoked = 1 /\ calls[2].invoked = 1
  /\ calls[1].thrown.kind = "provider" /\ calls[2].thrown.kind = "provider"
  /\ breakers["ai-openai"].failureCount = 2
  /\ breakers["ai-openai"].state = "OPEN"
  /\ breakers["ai-anthropic"].options.failureThreshold = DefaultFailureThreshold
  /\ breakers["ai-anthropic"].state = "CLOSED"
  /\ breakers["ai-anthropic"].failureCount = 0

(***************************************************************************)
(* The result of truncateToFit as a subsequence of its input                *)
(***************************************************************************)
\* out from index i on can be matched, in order, to distinct positions of inp
\* from index j on (taking the earliest match loses none)
RECURSIVE IsSubsequenceFrom(_, _, _, _)
IsSubsequenceFrom(out, i, inp, j) ==
  IF i > Len(out) THEN TRUE
  ELSE IF j > Len(inp) THEN FALSE
  ELSE IF out[i] = inp[j] THEN IsSubsequenceFrom(out, i + 1, inp, j + 1)
  ELSE IsSubsequenceFrom(out, i, inp, j + 1)

IsSubsequence(out, inp) == IsSubsequenceFrom(out, 1, inp, 1)

\* C30 as stated: for every input list of one or more messages and every
\* budget, truncateToFit returns an order-preserving subsequence of its input:
\* every element of the output is a message of the input, the elements keep
\* their relative order, and no message appears more often than in the input
C30_Original == fit.returned => IsSubsequence(fit.result, fit.messages)

\* the same for the lists of two or more messages
C30_TwoOrMore == Len(fit.messages) >= 2 => C30_Original

\* a list of one message over the budget has come back with a second element
\* that is no message of the input
C30_SingleGainsUndefined ==
  /\ fit.returned
  /\ Len(fit.messages) = 1
  /\ Len(fit.result) = 2
  /\ fit.result[1] = fit.messages[1]
  /\ fit.result[2] = UndefinedMessage

====
